---- MODULE Spec2Model ----
(***************************************************************************)
(* A model of the advice provider of the Miden VM processor                *)
(* (processor/src/advice/mod.rs): the advice tape, the advice map and the  *)
(* advice sets, with one action per method of AdviceProvider; and of the   *)
(* operand stack with its overflow table, the memory-range helper of the   *)
(* advice injectors and the auxiliary column of the overflow table         *)
(* (processor/src/stack/aux_trace.rs); and of one transition of the hasher *)
(* chiplet under its constraints (air/src/constraints/chiplets/hasher).    *)
(***************************************************************************)
EXTENDS Integers, Sequences, FiniteSets, TLC

VARIABLES step, tape, values, sets, last,
          clk, stack, active_depth, overflow, ctxs, trace, status,
          hasher, memory,
          flow

adviceVars == <<step, tape, values, sets, last>>
stackVars == <<clk, stack, active_depth, overflow, ctxs, trace, status>>
chipletVars == <<hasher, memory>>
flowVars == <<flow>>
vars == <<adviceVars, stackVars, chipletVars, flowVars>>

(***************************************************************************)
(* Bounds of the model.                                                    *)
(***************************************************************************)
\* longest advice tape explored by the tape specification
MaxTape == 8
\* longest advice tape explored by the map specification
MaxMapTape == 2
\* longest value list stored under a key of the advice map
MaxVals == 2
\* largest value of the step counter
MaxStep == 1
\* largest low half of a memory address read from the stack
MaxAddr == 3
\* largest number of cycles of an execution of the stack
MaxClk == 6
\* largest number of values a program declares beyond the 16 visible ones
MaxInitRows == 1
\* deepest nesting of calls
MaxCalls == 1

(***************************************************************************)
(* Data.                                                                   *)
(***************************************************************************)
\* the field elements that appear on the tape and in the map
Felts == {0, 1}

SeqsUpTo(S, n) == UNION {[1..k -> S] : k \in 0..n}

Reverse(s) == [i \in 1..Len(s) |-> s[Len(s) + 1 - i]]

\* the 8 little-endian bytes of the integer of a field element (below 2^31 here)
FeltBytes(f) == [i \in 1..8 |-> IF i <= 4 THEN (f \div (256 ^ (i - 1))) % 256 ELSE 0]

\* Word::into_bytes: the 32 bytes of the four elements, in order
into_bytes(word) ==
    FeltBytes(word[1]) \o FeltBytes(word[2]) \o FeltBytes(word[3]) \o FeltBytes(word[4])

\* the words used as keys of the advice map
KeyWords == {<<1, 0, 0, 0>>, <<0, 0, 0, 1>>}

\* Result<T, ExecutionError>
Ok(v) == [ok |-> TRUE, val |-> v]
Err(e) == [ok |-> FALSE, val |-> e]

AdviceTapeReadFailed(s) == <<"AdviceTapeReadFailed", s>>
AdviceKeyNotFound(key) == <<"AdviceKeyNotFound", key>>
DuplicateAdviceKey(key) == <<"DuplicateAdviceKey", key>>
AdviceSetNotFound(bytes) == <<"AdviceSetNotFound", bytes>>
AdviceSetLookupFailed(e) == <<"AdviceSetLookupFailed", e>>

\* the provider as one value: the fields of struct AdviceProvider
Self == [step |-> step, tape |-> tape, values |-> values, sets |-> sets]

(***************************************************************************)
(* The advice tape.                                                        *)
(***************************************************************************)
\* new, had it kept the declared order of the tape
new_unreversed(inputs) ==
    [step |-> 0,
     tape |-> inputs.advice_tape,
     values |-> inputs.advice_map,
     sets |-> inputs.advice_sets]

new(inputs) ==
    [step |-> 0,
     tape |-> Reverse(inputs.advice_tape),
     values |-> inputs.advice_map,
     sets |-> inputs.advice_sets]

\* read_tape, had it taken the element from the other end of the vector
read_tape_first(self) ==
    IF Len(self.tape) = 0
    THEN [adv |-> self, res |-> Err(AdviceTapeReadFailed(self.step))]
    ELSE [adv |-> [self EXCEPT !.tape = SubSeq(self.tape, 2, Len(self.tape))],
          res |-> Ok(self.tape[1])]

\* read_tape, had it answered an exhausted tape with the zero element
read_tape_default(self) ==
    IF Len(self.tape) = 0
    THEN [adv |-> self, res |-> Ok(0)]
    ELSE [adv |-> [self EXCEPT !.tape = SubSeq(self.tape, 1, Len(self.tape) - 1)],
          res |-> Ok(self.tape[Len(self.tape)])]

read_tape(self) ==
    IF Len(self.tape) = 0
    THEN [adv |-> self, res |-> Err(AdviceTapeReadFailed(self.step))]
    ELSE [adv |-> [self EXCEPT !.tape = SubSeq(self.tape, 1, Len(self.tape) - 1)],
          res |-> Ok(self.tape[Len(self.tape)])]

\* read_tapew, had it returned the four elements in vector order
read_tapew_unreversed(self) ==
    IF Len(self.tape) < 4
    THEN [adv |-> self, res |-> Err(AdviceTapeReadFailed(self.step))]
    ELSE LET idx == Len(self.tape) - 4
         IN [adv |-> [self EXCEPT !.tape = SubSeq(self.tape, 1, idx)],
             res |-> Ok(SubSeq(self.tape, idx + 1, idx + 4))]

read_tapew(self) ==
    IF Len(self.tape) < 4
    THEN [adv |-> self, res |-> Err(AdviceTapeReadFailed(self.step))]
    ELSE LET idx == Len(self.tape) - 4
             \* the vector is indexed from 0 in the source and from 1 here
             result == <<self.tape[idx + 3 + 1], self.tape[idx + 2 + 1],
                         self.tape[idx + 1 + 1], self.tape[idx + 1]>>
         IN [adv |-> [self EXCEPT !.tape = SubSeq(self.tape, 1, idx)],
             res |-> Ok(result)]

\* read_tape_double, had it returned the two words in the other order
read_tape_double_swapped(self) ==
    LET r0 == read_tapew(self)
    IN IF ~r0.res.ok
       THEN r0
       ELSE LET r1 == read_tapew(r0.adv)
            IN IF ~r1.res.ok
               THEN r1
               ELSE [adv |-> r1.adv, res |-> Ok(<<r1.res.val, r0.res.val>>)]

read_tape_double(self) ==
    LET r0 == read_tapew(self)
    IN IF ~r0.res.ok
       THEN r0
       ELSE LET r1 == read_tapew(r0.adv)
            IN IF ~r1.res.ok
               THEN r1
               ELSE [adv |-> r1.adv, res |-> Ok(<<r0.res.val, r1.res.val>>)]

write_tape(self, value) ==
    [adv |-> [self EXCEPT !.tape = Append(self.tape, value)], res |-> Ok(<<>>)]

\* advance_clock, had it cleared the tape of the cycle that ended
advance_clock_clearing(self) ==
    [adv |-> [self EXCEPT !.step = self.step + 1, !.tape = <<>>], res |-> Ok(<<>>)]

advance_clock(self) ==
    [adv |-> [self EXCEPT !.step = self.step + 1], res |-> Ok(<<>>)]

(***************************************************************************)
(* The advice map.                                                         *)
(***************************************************************************)
\* BTreeMap::insert: the entry is written whether or not the key was present
MapInsert(map, k, v) == [x \in DOMAIN map \cup {k} |-> IF x = k THEN v ELSE map[x]]

\* write_tape_from_map, had it pushed the values in list order
write_tape_from_map_unreversed(self, key) ==
    IF into_bytes(key) \notin DOMAIN self.values
    THEN [adv |-> self, res |-> Err(AdviceKeyNotFound(key))]
    ELSE LET vals == self.values[into_bytes(key)]
         IN [adv |-> [self EXCEPT !.tape = self.tape \o vals],
             res |-> Ok(<<>>)]

\* write_tape_from_map, had it taken a missing key for an empty list
write_tape_from_map_lenient(self, key) ==
    IF into_bytes(key) \notin DOMAIN self.values
    THEN [adv |-> self, res |-> Ok(<<>>)]
    ELSE LET vals == self.values[into_bytes(key)]
         IN [adv |-> [self EXCEPT !.tape = self.tape \o Reverse(vals)],
             res |-> Ok(<<>>)]

\* write_tape_from_map, had it taken the entry out of the map
write_tape_from_map_consuming(self, key) ==
    IF into_bytes(key) \notin DOMAIN self.values
    THEN [adv |-> self, res |-> Err(AdviceKeyNotFound(key))]
    ELSE [adv |-> [self EXCEPT
                      !.tape = self.tape \o Reverse(self.values[into_bytes(key)]),
                      !.values = [b \in DOMAIN self.values \ {into_bytes(key)} |->
                                     self.values[b]]],
          res |-> Ok(<<>>)]

write_tape_from_map(self, key) ==
    IF into_bytes(key) \notin DOMAIN self.values
    THEN [adv |-> self, res |-> Err(AdviceKeyNotFound(key))]
    ELSE LET vals == self.values[into_bytes(key)]
         IN [adv |-> [self EXCEPT !.tape = self.tape \o Reverse(vals)],
             res |-> Ok(<<>>)]

\* insert_into_map, had it dropped the result of BTreeMap::insert
insert_into_map_silent(self, key, vals) ==
    [adv |-> [self EXCEPT !.values = MapInsert(self.values, into_bytes(key), vals)],
     res |-> Ok(<<>>)]

insert_into_map(self, key, vals) ==
    LET present == into_bytes(key) \in DOMAIN self.values
        inserted == [self EXCEPT !.values = MapInsert(self.values, into_bytes(key), vals)]
    IN IF present
       THEN [adv |-> inserted, res |-> Err(DuplicateAdviceKey(key))]
       ELSE [adv |-> inserted, res |-> Ok(<<>>)]

(***************************************************************************)
(* Advice sets (vm_core::AdviceSet): a fully known Merkle tree, given by   *)
(* its depth and its 2^depth leaves, indexed from 0 in the source and from *)
(* 1 here.  The hash is modelled as an injective function of the two       *)
(* children whose values differ from level to level, so that two trees     *)
(* have the same root only if they are the same tree.                      *)
(***************************************************************************)
\* the words stored in the leaves
LeafWords == {<<0, 0, 0, 0>>, <<1, 0, 0, 0>>}

Pair(x, y) == ((x + y) * (x + y + 1)) \div 2 + y

\* the two-to-one hash of the tree
Merge(a, b) == <<Pair(a[1], b[1]) + 2, 0, 0, 0>>

RECURSIVE NodeAt(_, _, _)
NodeAt(set, depth, index) ==
    IF depth = set.depth
    THEN set.leaves[index + 1]
    ELSE Merge(NodeAt(set, depth + 1, 2 * index), NodeAt(set, depth + 1, 2 * index + 1))

SetRoot(set) == NodeAt(set, 0, 0)

SetDepth(set) == set.depth

Sibling(index) == IF index % 2 = 0 THEN index + 1 ELSE index - 1

get_node(set, depth, index) ==
    IF depth = 0 THEN Err(<<"DepthTooSmall", depth>>)
    ELSE IF depth > set.depth THEN Err(<<"DepthTooBig", depth>>)
    ELSE IF index >= 2 ^ depth THEN Err(<<"InvalidIndex", depth, index>>)
    ELSE Ok(NodeAt(set, depth, index))

\* the siblings on the way from the node up to the root, the node's own first
get_path(set, depth, index) ==
    IF depth = 0 THEN Err(<<"DepthTooSmall", depth>>)
    ELSE IF depth > set.depth THEN Err(<<"DepthTooBig", depth>>)
    ELSE IF index >= 2 ^ depth THEN Err(<<"InvalidIndex", depth, index>>)
    ELSE Ok([i \in 1..depth |->
                NodeAt(set, depth - i + 1, Sibling(index \div (2 ^ (i - 1))))])

update_leaf(set, index, value) ==
    IF index >= 2 ^ set.depth THEN Err(<<"InvalidIndex", set.depth, index>>)
    ELSE Ok([set EXCEPT !.leaves[index + 1] = value])

\* the trees of one depth over LeafWords
TreesOfDepth(d) == {[depth |-> d, leaves |-> l] : l \in [1..(2 ^ d) -> LeafWords]}

\* A field element whose integer may exceed 2^32 is the pair of the two
\* 32-bit halves of as_int(): hi * 2^32 + lo.
U64(hi, lo) == [hi |-> hi, lo |-> lo]

\* `as u32`: the low 32 bits
AsU32(x) == x.lo

\* BTreeMap::remove
MapRemove(map, k) == [x \in DOMAIN map \ {k} |-> map[x]]

\* get_tree_node, had it answered an unknown root with the empty word
get_tree_node_default(self, root, depth, index) ==
    IF into_bytes(root) \notin DOMAIN self.sets
    THEN [adv |-> self, res |-> Ok(<<0, 0, 0, 0>>)]
    ELSE LET advice_set == self.sets[into_bytes(root)]
             node == get_node(advice_set, AsU32(depth), index)
         IN IF ~node.ok
            THEN [adv |-> self, res |-> Err(AdviceSetLookupFailed(node.val))]
            ELSE [adv |-> self, res |-> Ok(node.val)]

get_tree_node(self, root, depth, index) ==
    IF into_bytes(root) \notin DOMAIN self.sets
    THEN [adv |-> self, res |-> Err(AdviceSetNotFound(into_bytes(root)))]
    ELSE LET advice_set == self.sets[into_bytes(root)]
             node == get_node(advice_set, AsU32(depth), index)
         IN IF ~node.ok
            THEN [adv |-> self, res |-> Err(AdviceSetLookupFailed(node.val))]
            ELSE [adv |-> self, res |-> Ok(node.val)]

\* get_merkle_path, had it asked for the path at the set's own depth,
\* as update_merkle_leaf does
get_merkle_path_full_depth(self, root, depth, index) ==
    IF into_bytes(root) \notin DOMAIN self.sets
    THEN [adv |-> self, res |-> Err(AdviceSetNotFound(into_bytes(root)))]
    ELSE LET advice_set == self.sets[into_bytes(root)]
             path == get_path(advice_set, SetDepth(advice_set), index)
         IN IF ~path.ok
            THEN [adv |-> self, res |-> Err(AdviceSetLookupFailed(path.val))]
            ELSE [adv |-> self, res |-> Ok(path.val)]

get_merkle_path(self, root, depth, index) ==
    IF into_bytes(root) \notin DOMAIN self.sets
    THEN [adv |-> self, res |-> Err(AdviceSetNotFound(into_bytes(root)))]
    ELSE LET advice_set == self.sets[into_bytes(root)]
             path == get_path(advice_set, AsU32(depth), index)
         IN IF ~path.ok
            THEN [adv |-> self, res |-> Err(AdviceSetLookupFailed(path.val))]
            ELSE [adv |-> self, res |-> Ok(path.val)]

\* what update_merkle_leaf does once the set was found; `taken` is the
\* provider after the set was cloned (update_in_copy) or removed from the map
UpdateFound(taken, advice_set, index, leaf_value) ==
    LET path == get_path(advice_set, SetDepth(advice_set), index)
        updated == update_leaf(advice_set, index, leaf_value)
    IN IF ~path.ok
       THEN [adv |-> taken, res |-> Err(AdviceSetLookupFailed(path.val))]
       ELSE IF ~updated.ok
       THEN [adv |-> taken, res |-> Err(AdviceSetLookupFailed(updated.val))]
       ELSE [adv |-> [taken EXCEPT !.sets =
                         MapInsert(taken.sets, into_bytes(SetRoot(updated.val)),
                                   updated.val)],
             res |-> Ok(path.val)]

\* update_merkle_leaf, had it removed the old set whatever update_in_copy says
update_merkle_leaf_in_place(self, root, index, leaf_value, update_in_copy) ==
    IF into_bytes(root) \notin DOMAIN self.sets
    THEN [adv |-> self, res |-> Err(AdviceSetNotFound(into_bytes(root)))]
    ELSE UpdateFound([self EXCEPT !.sets = MapRemove(self.sets, into_bytes(root))],
                     self.sets[into_bytes(root)], index, leaf_value)

\* update_merkle_leaf, had it kept the old set whatever update_in_copy says
update_merkle_leaf_copying(self, root, index, leaf_value, update_in_copy) ==
    IF into_bytes(root) \notin DOMAIN self.sets
    THEN [adv |-> self, res |-> Err(AdviceSetNotFound(into_bytes(root)))]
    ELSE UpdateFound(self, self.sets[into_bytes(root)], index, leaf_value)

\* update_merkle_leaf, had it re-inserted the set without the new leaf
update_merkle_leaf_no_update(self, root, index, leaf_value, update_in_copy) ==
    IF into_bytes(root) \notin DOMAIN self.sets
    THEN [adv |-> self, res |-> Err(AdviceSetNotFound(into_bytes(root)))]
    ELSE LET advice_set == self.sets[into_bytes(root)]
             path == get_path(advice_set, SetDepth(advice_set), index)
         IN IF ~path.ok
            THEN [adv |-> IF update_in_copy THEN self
                          ELSE [self EXCEPT !.sets = MapRemove(self.sets, into_bytes(root))],
                  res |-> Err(AdviceSetLookupFailed(path.val))]
            ELSE [adv |-> self, res |-> Ok(path.val)]

update_merkle_leaf(self, root, index, leaf_value, update_in_copy) ==
    IF into_bytes(root) \notin DOMAIN self.sets
    THEN [adv |-> self, res |-> Err(AdviceSetNotFound(into_bytes(root)))]
    ELSE IF update_in_copy
    THEN UpdateFound(self, self.sets[into_bytes(root)], index, leaf_value)
    ELSE UpdateFound([self EXCEPT !.sets = MapRemove(self.sets, into_bytes(root))],
                     self.sets[into_bytes(root)], index, leaf_value)

(***************************************************************************)
(* The operand stack and its overflow table (processor/src/stack): the     *)
(* top 16 elements are visible, the first the top of the stack; what lies  *)
(* deeper is in the overflow table.                                        *)
(***************************************************************************)
MIN_STACK_DEPTH == 16

\* OverflowTableRow::new(clk, val, prev)
OverflowTableRow(c, val, prev) == [clk |-> c, val |-> val, prev |-> prev]

\* the table: every row ever added, the indexes of the rows now in the table
\* (the last the top), the address of the top row (0 for none), and the
\* number of rows present before the execution began
EmptyTable == [all_rows |-> <<>>, active_rows |-> <<>>, last_row_addr |-> 0,
               num_init_rows |-> 0]

OverflowPush(table, val, c) ==
    [table EXCEPT !.all_rows = Append(@, OverflowTableRow(c, val, table.last_row_addr)),
                  !.active_rows = Append(@, Len(table.all_rows) + 1),
                  !.last_row_addr = c]

\* the table without its top row, and the value of that row
OverflowPop(table) ==
    LET row == table.all_rows[table.active_rows[Len(table.active_rows)]]
    IN [table |-> [table EXCEPT
                      !.active_rows = SubSeq(@, 1, Len(table.active_rows) - 1),
                      !.last_row_addr = row.prev],
        val |-> row.val]

(***************************************************************************)
(* The memory-range helper of the advice injectors.  The elements of the   *)
(* stack it reads are integers of 64 bits, U64(hi, lo).                    *)
(***************************************************************************)
MemoryAddressOutOfBounds(addr) == <<"MemoryAddressOutOfBounds", addr>>
InvalidMemoryRange(start_addr, end_addr) == <<"InvalidMemoryRange", start_addr, end_addr>>

\* a > b on integers of 64 bits
U64Gt(a, b) == a.hi > b.hi \/ (a.hi = b.hi /\ a.lo > b.lo)

\* a > u32::MAX as u64
AboveU32Max(a) == a.hi > 0

\* Stack::get(idx): the element at position idx, 0 the top
StackGet(stk, idx) == stk[idx + 1]

\* get_mem_addr_range, had it taken the two addresses in the other order
get_mem_addr_range_swapped(stk, start_idx, end_idx) ==
    LET start_addr == StackGet(stk, end_idx)
        end_addr == StackGet(stk, start_idx)
    IN IF AboveU32Max(start_addr) THEN Err(MemoryAddressOutOfBounds(start_addr))
       ELSE IF AboveU32Max(end_addr) THEN Err(MemoryAddressOutOfBounds(end_addr))
       ELSE IF U64Gt(start_addr, end_addr)
       THEN Err(InvalidMemoryRange(start_addr, end_addr))
       ELSE Ok(<<AsU32(start_addr), AsU32(end_addr)>>)

\* get_mem_addr_range, had it looked at end_addr before start_addr
get_mem_addr_range_end_first(stk, start_idx, end_idx) ==
    LET start_addr == StackGet(stk, start_idx)
        end_addr == StackGet(stk, end_idx)
    IN IF AboveU32Max(end_addr) THEN Err(MemoryAddressOutOfBounds(end_addr))
       ELSE IF AboveU32Max(start_addr) THEN Err(MemoryAddressOutOfBounds(start_addr))
       ELSE IF U64Gt(start_addr, end_addr)
       THEN Err(InvalidMemoryRange(start_addr, end_addr))
       ELSE Ok(<<AsU32(start_addr), AsU32(end_addr)>>)

get_mem_addr_range(stk, start_idx, end_idx) ==
    LET start_addr == StackGet(stk, start_idx)
        end_addr == StackGet(stk, end_idx)
    IN IF AboveU32Max(start_addr) THEN Err(MemoryAddressOutOfBounds(start_addr))
       ELSE IF AboveU32Max(end_addr) THEN Err(MemoryAddressOutOfBounds(end_addr))
       ELSE IF U64Gt(start_addr, end_addr)
       THEN Err(InvalidMemoryRange(start_addr, end_addr))
       ELSE Ok(<<AsU32(start_addr), AsU32(end_addr)>>)

(***************************************************************************)
(* Calls: the provider after the call, and what the call returned.         *)
(***************************************************************************)
Call(op, args, r) ==
    /\ step' = r.adv.step
    /\ tape' = r.adv.tape
    /\ values' = r.adv.values
    /\ sets' = r.adv.sets
    /\ last' = [op |-> op, args |-> args, res |-> r.res, old |-> Self]
    /\ UNCHANGED <<stackVars, chipletVars, flowVars>>

\* the provider of a process, built from the inputs of the program
Provided(inputs) ==
    LET adv == new(inputs)
    IN /\ step = adv.step
       /\ tape = adv.tape
       /\ values = adv.values
       /\ sets = adv.sets
       /\ last = [op |-> "new", args |-> inputs, res |-> Ok(<<>>), old |-> adv]

\* no frame of the hasher chiplet is under evaluation, and the memory has
\* not been accessed
ChipletsIdle ==
    /\ hasher = [cycle_row |-> 0]
    /\ memory = <<>>

\* no structured program is being executed
FlowIdle == flow = [cont |-> <<>>, log |-> <<>>]

\* a process that has not started: an operand stack of 16 zeros
StackIdle ==
    /\ clk = 0
    /\ stack = [i \in 1..MIN_STACK_DEPTH |-> 0]
    /\ active_depth = MIN_STACK_DEPTH
    /\ overflow = EmptyTable
    /\ ctxs = <<>>
    /\ trace = <<>>
    /\ status = Ok(<<>>)

Constructed(inputs) == Provided(inputs) /\ StackIdle /\ ChipletsIdle /\ FlowIdle

ReadTape == Call("read_tape", <<>>, read_tape(Self))

ReadTapew == Call("read_tapew", <<>>, read_tapew(Self))

ReadTapeDouble == Call("read_tape_double", <<>>, read_tape_double(Self))

WriteTape(cap) ==
    \E v \in Felts :
        /\ Len(tape) < cap
        /\ Call("write_tape", <<v>>, write_tape(Self, v))

AdvanceClock ==
    /\ step < MaxStep
    /\ Call("advance_clock", <<>>, advance_clock(Self))

WriteTapeFromMap(cap) ==
    \E key \in KeyWords :
        LET r == write_tape_from_map(Self, key)
        IN /\ Len(r.adv.tape) <= cap
           /\ Call("write_tape_from_map", <<key>>, r)

InsertIntoMap ==
    \E key \in KeyWords, vals \in SeqsUpTo(Felts, MaxVals) :
        Call("insert_into_map", <<key, vals>>, insert_into_map(Self, key, vals))

(***************************************************************************)
(* Calls on the advice sets.                                               *)
(***************************************************************************)
\* the trees the provider can hold
Trees == TreesOfDepth(1)

\* the roots asked for: the root of every tree, and a root of no tree
RootWords == {SetRoot(t) : t \in Trees} \cup {<<0, 0, 0, 0>>}

\* the depths asked for: 0, 1, 2 and 2^32 + 1
DepthFelts == {U64(0, 0), U64(0, 1), U64(0, 2), U64(1, 1)}

\* the indexes asked for
Indexes == 0..2

GetTreeNode ==
    \E root \in RootWords, depth \in DepthFelts, index \in Indexes :
        Call("get_tree_node", [root |-> root, depth |-> depth, index |-> index],
             get_tree_node(Self, root, depth, index))

GetMerklePath ==
    \E root \in RootWords, depth \in DepthFelts, index \in Indexes :
        Call("get_merkle_path", [root |-> root, depth |-> depth, index |-> index],
             get_merkle_path(Self, root, depth, index))

UpdateMerkleLeaf ==
    \E root \in RootWords, index \in Indexes, leaf \in LeafWords, copy \in BOOLEAN :
        Call("update_merkle_leaf",
             [root |-> root, index |-> index, leaf |-> leaf, copy |-> copy],
             update_merkle_leaf(Self, root, index, leaf, copy))

(***************************************************************************)
(* Program inputs.                                                         *)
(***************************************************************************)
\* the advice sets of a program that declares the trees `trees`, by root
SetsOf(trees) ==
    [b \in {into_bytes(SetRoot(t)) : t \in trees} |->
        CHOOSE t \in trees : into_bytes(SetRoot(t)) = b]

\* one advice set
OneSet == SetsOf({[depth |-> 1, leaves |-> <<<<0, 0, 0, 0>>, <<1, 0, 0, 0>>>>]})

\* an advice map holding one key
OneKeyMap == [b \in {into_bytes(<<1, 0, 0, 0>>)} |-> <<0, 1>>]

\* the advice maps a program can declare
AdviceMaps ==
    UNION {[{into_bytes(k) : k \in K} -> SeqsUpTo(Felts, MaxVals)] : K \in SUBSET KeyWords}

(***************************************************************************)
(* The tape specification: the provider of a program that declares any     *)
(* advice tape, under reads, writes and clock ticks.                       *)
(***************************************************************************)
Init ==
    \E t \in SeqsUpTo(Felts, MaxTape) :
        Constructed([advice_tape |-> t, advice_map |-> OneKeyMap, advice_sets |-> OneSet])

Next ==
    \/ ReadTape
    \/ ReadTapew
    \/ ReadTapeDouble
    \/ WriteTape(MaxTape)
    \/ AdvanceClock

Spec == Init /\ [][Next]_vars

(***************************************************************************)
(* The map specification: the provider of a program that declares any      *)
(* advice map, under insertions, copies from the map to the tape and reads.*)
(***************************************************************************)
InitMap ==
    \E t \in SeqsUpTo(Felts, 1), m \in AdviceMaps :
        Constructed([advice_tape |-> t, advice_map |-> m, advice_sets |-> OneSet])

NextMap ==
    \/ InsertIntoMap
    \/ WriteTapeFromMap(MaxMapTape)
    \/ ReadTape

SpecMap == InitMap /\ [][NextMap]_vars

(***************************************************************************)
(* The set specification: the provider of a program that declares any      *)
(* collection of trees, under node and path queries and leaf updates.      *)
(***************************************************************************)
InitSets ==
    \E trees \in SUBSET Trees :
        Constructed([advice_tape |-> <<0, 1>>, advice_map |-> OneKeyMap,
                     advice_sets |-> SetsOf(trees)])

NextSets ==
    \/ GetTreeNode
    \/ GetMerklePath
    \/ UpdateMerkleLeaf

SpecSets == InitSets /\ [][NextSets]_vars

(***************************************************************************)
(* Properties.                                                             *)
(***************************************************************************)
\* the results of n successive read_tape calls, the first read first
RECURSIVE ReadN(_, _)
ReadN(adv, n) ==
    IF n = 0
    THEN [adv |-> adv, vals |-> <<>>, ok |-> TRUE]
    ELSE LET r == read_tape(adv)
         IN IF ~r.res.ok
            THEN [adv |-> r.adv, vals |-> <<>>, ok |-> FALSE]
            ELSE LET rest == ReadN(r.adv, n - 1)
                 IN [adv |-> rest.adv, vals |-> <<r.res.val>> \o rest.vals, ok |-> rest.ok]

\* C1: insert_into_map fails with DuplicateAdviceKey(key) when the key is in
\* the map before the call, whoever put it there, and succeeds only when the
\* key is absent.
C1_DuplicateKeyRejected ==
    last.op = "insert_into_map" =>
        LET key == last.args[1]
        IN IF into_bytes(key) \in DOMAIN last.old.values
           THEN ~last.res.ok /\ last.res.val = DuplicateAdviceKey(key)
           ELSE last.res.ok

\* an insertion under a key that the map already held was refused
C1_Witness ==
    /\ last.op = "insert_into_map"
    /\ into_bytes(last.args[1]) \in DOMAIN last.old.values
    /\ ~last.res.ok

\* C2: after insert_into_map(key, v2) has failed with DuplicateAdviceKey the
\* values stored under key are still the ones stored first, and
\* write_tape_from_map(key) pushes those.
C2_NoOverwrite ==
    (last.op = "insert_into_map" /\ ~last.res.ok) =>
        LET b == into_bytes(last.args[1])
        IN /\ values[b] = last.old.values[b]
           /\ write_tape_from_map(Self, last.args[1]).adv.tape
                = write_tape_from_map(last.old, last.args[1]).adv.tape

\* C3: after insert_into_map(key, values) has succeeded, write_tape_from_map(key)
\* followed by Len(values) calls of read_tape returns the values in their
\* original order and leaves the tape as it was before write_tape_from_map.
C3_RoundTrip ==
    (last.op = "insert_into_map" /\ last.res.ok) =>
        LET vals == last.args[2]
            written == write_tape_from_map(Self, last.args[1])
            reads == ReadN(written.adv, Len(vals))
        IN /\ written.res.ok
           /\ Len(written.adv.tape) = Len(tape) + Len(vals)
           /\ reads.ok
           /\ reads.vals = vals
           /\ reads.adv.tape = tape

\* a list of two different values was inserted, over a tape that is not empty
C3_Witness ==
    /\ last.op = "insert_into_map"
    /\ last.res.ok
    /\ Len(last.args[2]) = 2
    /\ last.args[2][1] # last.args[2][2]
    /\ Len(tape) > 0

\* C4: read_tape on a non-empty tape returns the last element and removes
\* exactly that element; write_tape(v) followed by read_tape returns v and
\* restores the tape.
C4_TapeLifo ==
    /\ (last.op = "read_tape" /\ Len(last.old.tape) > 0) =>
            LET n == Len(last.old.tape)
            IN /\ last.res.ok
               /\ last.res.val = last.old.tape[n]
               /\ tape = SubSeq(last.old.tape, 1, n - 1)
    /\ last.op = "write_tape" =>
            LET r == read_tape(Self)
            IN /\ tape = Append(last.old.tape, last.args[1])
               /\ r.res.ok
               /\ r.res.val = last.args[1]
               /\ r.adv = last.old

\* an element was read from a tape whose two ends differ
C4_Witness ==
    /\ last.op = "read_tape"
    /\ last.res.ok
    /\ Len(last.old.tape) >= 3
    /\ last.old.tape[1] # last.old.tape[Len(last.old.tape)]

\* C5: read_tape on an empty tape fails with AdviceTapeReadFailed and leaves
\* the tape, the step counter, the map and the sets as they were.
C5_ReadEmptyTape ==
    (last.op = "read_tape" /\ Len(last.old.tape) = 0) =>
        /\ ~last.res.ok
        /\ last.res.val = AdviceTapeReadFailed(last.old.step)
        /\ tape = <<>>
        /\ Self = last.old

\* a read of the empty tape failed after the clock had advanced
C5_Witness ==
    /\ last.op = "read_tape"
    /\ ~last.res.ok
    /\ step > 0
    /\ DOMAIN values # {}
    /\ DOMAIN sets # {}

\* C6: read_tapew on a tape of at least 4 elements removes the last 4 and
\* returns them with the last element at position 0; on a shorter tape it
\* fails with AdviceTapeReadFailed and leaves the tape unchanged.
C6_ReadWord ==
    last.op = "read_tapew" =>
        LET o == last.old.tape
            n == Len(o)
        IN IF n >= 4
           THEN /\ last.res.ok
                /\ last.res.val = <<o[n], o[n - 1], o[n - 2], o[n - 3]>>
                /\ tape = SubSeq(o, 1, n - 4)
           ELSE /\ ~last.res.ok
                /\ last.res.val = AdviceTapeReadFailed(last.old.step)
                /\ tape = o

\* a word that is not its own mirror image was read, and elements remain
C6_Witness ==
    /\ last.op = "read_tapew"
    /\ last.res.ok
    /\ last.res.val[1] # last.res.val[4]
    /\ Len(tape) > 0

\* C7: read_tape_double on a tape of at least 8 elements returns the word of
\* a first read_tapew and the word of a second one, in that order, and
\* removes exactly 8 elements; on a shorter tape it fails with
\* AdviceTapeReadFailed.
C7_ReadDoubleWord ==
    last.op = "read_tape_double" =>
        LET o == last.old.tape
            n == Len(o)
        IN IF n >= 8
           THEN /\ last.res.ok
                /\ last.res.val[1] = <<o[n], o[n - 1], o[n - 2], o[n - 3]>>
                /\ last.res.val[2] = <<o[n - 4], o[n - 5], o[n - 6], o[n - 7]>>
                /\ last.res.val[1] = read_tapew(last.old).res.val
                /\ last.res.val[2] = read_tapew(read_tapew(last.old).adv).res.val
                /\ tape = SubSeq(o, 1, n - 8)
           ELSE /\ ~last.res.ok
                /\ last.res.val = AdviceTapeReadFailed(last.old.step)

\* two different words were read
C7_Witness ==
    /\ last.op = "read_tape_double"
    /\ last.res.ok
    /\ last.res.val[1] # last.res.val[2]

\* C8: write_tape_from_map with a key that is not in the map fails with
\* AdviceKeyNotFound(key) and leaves the tape, the map and the sets unchanged.
C8_KeyNotFound ==
    (last.op = "write_tape_from_map"
        /\ into_bytes(last.args[1]) \notin DOMAIN last.old.values) =>
        /\ ~last.res.ok
        /\ last.res.val = AdviceKeyNotFound(last.args[1])
        /\ tape = last.old.tape
        /\ values = last.old.values
        /\ sets = last.old.sets

\* a missing key was asked for while the map held the other key
C8_Witness ==
    /\ last.op = "write_tape_from_map"
    /\ ~last.res.ok
    /\ DOMAIN values # {}
    /\ DOMAIN sets # {}
    /\ Len(tape) > 0

\* C9: a provider built from the tape [t0, ..., tn-1] starts at step 0,
\* returns t0, ..., tn-1 in that order on n read_tape calls, and fails the
\* next read_tape with AdviceTapeReadFailed.
C9_DeclaredOrder ==
    last.op = "new" =>
        LET declared == last.args.advice_tape
            reads == ReadN(Self, Len(declared))
            past == read_tape(reads.adv)
        IN /\ step = 0
           /\ reads.ok
           /\ reads.vals = declared
           /\ ~past.res.ok
           /\ past.res.val = AdviceTapeReadFailed(0)

\* a provider was built from a tape whose first and last values differ
C9_Witness ==
    /\ last.op = "new"
    /\ Len(last.args.advice_tape) >= 3
    /\ last.args.advice_tape[1] # last.args.advice_tape[Len(last.args.advice_tape)]

\* C10: after a successful update_merkle_leaf with update_in_copy = true the
\* set under the original root is still there and answers every node and
\* path query as before, and the set with the new leaf is stored under the
\* new root.
C10_CopyKeepsOriginal ==
    (last.op = "update_merkle_leaf" /\ last.res.ok /\ last.args.copy) =>
        LET root == last.args.root
            before == last.old.sets[into_bytes(root)]
            after == [before EXCEPT !.leaves[last.args.index + 1] = last.args.leaf]
        IN /\ into_bytes(root) \in DOMAIN sets
           /\ sets[into_bytes(root)] = before
           /\ \A depth \in DepthFelts, index \in Indexes :
                /\ get_tree_node(Self, root, depth, index).res
                     = get_tree_node(last.old, root, depth, index).res
                /\ get_merkle_path(Self, root, depth, index).res
                     = get_merkle_path(last.old, root, depth, index).res
           /\ into_bytes(SetRoot(after)) \in DOMAIN sets
           /\ sets[into_bytes(SetRoot(after))] = after
           /\ get_tree_node(Self, SetRoot(after), U64(0, after.depth), last.args.index).res
                = Ok(last.args.leaf)

\* a copy was updated with a leaf that changes the root
C10_Witness ==
    /\ last.op = "update_merkle_leaf"
    /\ last.res.ok
    /\ last.args.copy
    /\ last.old.sets[into_bytes(last.args.root)].leaves[last.args.index + 1] # last.args.leaf
    /\ Cardinality(DOMAIN sets) = Cardinality(DOMAIN last.old.sets) + 1

\* whether every call on the sets with `root` fails with AdviceSetNotFound
RootUnknown(self, root) ==
    /\ \A depth \in DepthFelts, index \in Indexes :
        /\ ~get_tree_node(self, root, depth, index).res.ok
        /\ get_tree_node(self, root, depth, index).res.val
             = AdviceSetNotFound(into_bytes(root))
        /\ ~get_merkle_path(self, root, depth, index).res.ok
        /\ get_merkle_path(self, root, depth, index).res.val
             = AdviceSetNotFound(into_bytes(root))
    /\ \A index \in Indexes, leaf \in LeafWords, copy \in BOOLEAN :
        /\ ~update_merkle_leaf(self, root, index, leaf, copy).res.ok
        /\ update_merkle_leaf(self, root, index, leaf, copy).res.val
             = AdviceSetNotFound(into_bytes(root))

\* the set that a successful update_merkle_leaf stored
UpdatedSet ==
    [last.old.sets[into_bytes(last.args.root)]
        EXCEPT !.leaves[last.args.index + 1] = last.args.leaf]

C12_UnknownRoot ==
    (/\ last.op \in {"get_tree_node", "get_merkle_path", "update_merkle_leaf"}
     /\ into_bytes(last.args.root) \notin DOMAIN last.old.sets) =>
        /\ ~last.res.ok
        /\ last.res.val = AdviceSetNotFound(into_bytes(last.args.root))
        /\ sets = last.old.sets
        /\ Self = last.old

\* a node was asked for under a root of no stored set, while sets are stored
C12_Witness ==
    /\ last.op = "get_tree_node"
    /\ ~last.res.ok
    /\ last.res.val[1] = "AdviceSetNotFound"
    /\ DOMAIN sets # {}

\* C13: get_tree_node and get_merkle_path return a node or a path only when
\* the depth, as the integer of the field element, satisfies
\* 0 < depth <= depth of the set.
C13_DepthInRange ==
    (/\ last.op \in {"get_tree_node", "get_merkle_path"}
     /\ into_bytes(last.args.root) \in DOMAIN last.old.sets
     /\ last.res.ok) =>
        /\ last.args.depth.hi = 0
        /\ 0 < last.args.depth.lo
        /\ last.args.depth.lo <= last.old.sets[into_bytes(last.args.root)].depth

(***************************************************************************)
(* The path specification: the provider of a program that declares one     *)
(* tree of depth 2, under node and path queries.                           *)
(***************************************************************************)
\* the depths asked for: 0 to 3
PathDepths == {U64(0, 0), U64(0, 1), U64(0, 2), U64(0, 3)}

\* the indexes asked for
PathIndexes == 0..4

PathGetTreeNode ==
    \E root \in {SetRoot(t) : t \in TreesOfDepth(2)}, depth \in PathDepths,
       index \in PathIndexes :
        /\ into_bytes(root) \in DOMAIN sets
        /\ Call("get_tree_node", [root |-> root, depth |-> depth, index |-> index],
                get_tree_node(Self, root, depth, index))

PathGetMerklePath ==
    \E root \in {SetRoot(t) : t \in TreesOfDepth(2)}, depth \in PathDepths,
       index \in PathIndexes :
        /\ into_bytes(root) \in DOMAIN sets
        /\ Call("get_merkle_path", [root |-> root, depth |-> depth, index |-> index],
                get_merkle_path(Self, root, depth, index))

InitPath ==
    \E t \in TreesOfDepth(2) :
        Constructed([advice_tape |-> <<0, 1>>, advice_map |-> OneKeyMap,
                     advice_sets |-> SetsOf({t})])

NextPath ==
    \/ PathGetTreeNode
    \/ PathGetMerklePath

SpecPath == InitPath /\ [][NextPath]_vars

\* the node reached from `node` at `index` by hashing it with the siblings
\* of `path`, the node on the left when the bit of the index is 0
RECURSIVE Climb(_, _, _)
Climb(node, path, index) ==
    IF Len(path) = 0
    THEN node
    ELSE Climb(IF index % 2 = 0 THEN Merge(node, path[1]) ELSE Merge(path[1], node),
               SubSeq(path, 2, Len(path)), index \div 2)

\* C14: for every stored set and every (depth, index) that get_tree_node
\* accepts, get_merkle_path accepts it too and its siblings take the node
\* up to the root.
C14_PathLeadsToRoot ==
    \A b \in DOMAIN sets, depth \in PathDepths, index \in PathIndexes :
        LET root == SetRoot(sets[b])
            node == get_tree_node(Self, root, depth, index).res
            path == get_merkle_path(Self, root, depth, index).res
        IN /\ node.ok = path.ok
           /\ node.ok => /\ Len(path.val) = depth.lo
                         /\ Climb(node.val, path.val, index) = root

\* the path of a right-hand node of depth 1, or of a leaf, was returned
C14_Witness ==
    /\ last.op = "get_merkle_path"
    /\ last.res.ok
    /\ last.args.index % 2 = 1
    /\ Len(last.res.val) = 2
    /\ last.res.val[1] # last.res.val[2]

(***************************************************************************)
(* The range specification: a process whose stack holds any two addresses  *)
(* at positions 4 and 5, under calls of get_mem_addr_range(4, 5).          *)
(***************************************************************************)
\* the addresses on the stack: below 2^32, and 2^32 and above
Addrs == {U64(hi, lo) : hi \in 0..1, lo \in 0..MaxAddr} \cup {U64(0, 5), U64(0, 10)}

GetMemAddrRange ==
    /\ last' = [op |-> "get_mem_addr_range", args |-> <<4, 5>>,
                res |-> get_mem_addr_range(stack, 4, 5), old |-> Self]
    /\ UNCHANGED <<step, tape, values, sets, stackVars, chipletVars, flowVars>>

InitRange ==
    /\ Provided([advice_tape |-> <<>>, advice_map |-> OneKeyMap, advice_sets |-> OneSet])
    /\ \E start_addr \in Addrs, end_addr \in Addrs :
          stack = [i \in 1..MIN_STACK_DEPTH |->
                      IF i = 5 THEN start_addr ELSE IF i = 6 THEN end_addr ELSE U64(0, 0)]
    /\ clk = 0
    /\ active_depth = MIN_STACK_DEPTH
    /\ overflow = EmptyTable
    /\ ctxs = <<>>
    /\ trace = <<>>
    /\ status = Ok(<<>>)
    /\ ChipletsIdle
    /\ FlowIdle

NextRange == GetMemAddrRange

SpecRange == InitRange /\ [][NextRange]_vars

\* C15: get_mem_addr_range returns (start_addr, end_addr) exactly when
\* start_addr <= end_addr < 2^32; it fails with MemoryAddressOutOfBounds when
\* either address is 2^32 or more, and with InvalidMemoryRange when both are
\* below 2^32 and start_addr > end_addr.
C15_RangeClassified ==
    last.op = "get_mem_addr_range" =>
        LET start_addr == stack[5]
            end_addr == stack[6]
        IN IF start_addr.hi > 0 \/ end_addr.hi > 0
           THEN ~last.res.ok /\ last.res.val[1] = "MemoryAddressOutOfBounds"
           ELSE IF start_addr.lo > end_addr.lo
           THEN /\ ~last.res.ok
                /\ last.res.val = InvalidMemoryRange(start_addr, end_addr)
           ELSE /\ last.res.ok
                /\ last.res.val = <<start_addr.lo, end_addr.lo>>

\* the range from 10 to 5 was refused
C15_Witness ==
    /\ last.op = "get_mem_addr_range"
    /\ stack[5] = U64(0, 10)
    /\ stack[6] = U64(0, 5)
    /\ ~last.res.ok
    /\ last.res.val[1] = "InvalidMemoryRange"

(***************************************************************************)
(* The execution of the stack: one row of the main trace per cycle.  A row *)
(* holds the clock, the 16 visible elements, the depth of the stack (b0),  *)
(* the address of the top row of the overflow table (b1), the nesting of   *)
(* calls and the operation executed in the cycle.                          *)
(***************************************************************************)
InvalidStackDepthOnReturn(d) == <<"InvalidStackDepthOnReturn", d>>

\* the values a program pushes
PushVals == {0, 9}

\* the stack: its visible elements, its depth and its overflow table
StackState == [stack |-> stack, active_depth |-> active_depth, overflow |-> overflow]

\* Stack::shift_right: val becomes the top, the last visible element moves
\* to the overflow table in a row of the current clock cycle
shift_right(s, c, val) ==
    [stack |-> <<val>> \o SubSeq(s.stack, 1, MIN_STACK_DEPTH - 1),
     active_depth |-> s.active_depth + 1,
     overflow |-> OverflowPush(s.overflow, s.stack[MIN_STACK_DEPTH], c)]

\* shift_left, had it taken a row whenever the overflow table holds one
shift_left_any_row(s) ==
    IF s.overflow.active_rows = <<>>
    THEN [s EXCEPT !.stack = Tail(s.stack) \o <<0>>]
    ELSE LET popped == OverflowPop(s.overflow)
         IN [stack |-> Tail(s.stack) \o <<popped.val>>,
             active_depth |-> s.active_depth - 1,
             overflow |-> popped.table]

\* Stack::shift_left: the top is dropped; the last visible element comes from
\* the overflow table, or is zero when the depth is 16
shift_left(s) ==
    IF s.active_depth = MIN_STACK_DEPTH
    THEN [s EXCEPT !.stack = Tail(s.stack) \o <<0>>]
    ELSE LET popped == OverflowPop(s.overflow)
         IN [stack |-> Tail(s.stack) \o <<popped.val>>,
             active_depth |-> s.active_depth - 1,
             overflow |-> popped.table]

\* Stack::start_context: the callee sees a stack of depth 16 and no row of
\* the overflow table; the depth and the address of the caller are saved
start_context(s) ==
    [s |-> [s EXCEPT !.active_depth = MIN_STACK_DEPTH,
                     !.overflow.last_row_addr = 0],
     saved |-> [depth |-> s.active_depth, overflow_addr |-> s.overflow.last_row_addr]]

\* Stack::restore_context
restore_context(s, saved) ==
    [s EXCEPT !.active_depth = saved.depth,
              !.overflow.last_row_addr = saved.overflow_addr]

\* the end of a called procedure, had it not looked at the depth
end_call_unchecked(s, saved) == Ok(restore_context(s, saved))

\* the end of a called procedure: the depth of the stack must be 16
end_call(s, saved) ==
    IF s.active_depth > MIN_STACK_DEPTH
    THEN Err(InvalidStackDepthOnReturn(s.active_depth))
    ELSE Ok(restore_context(s, saved))

\* the row of the main trace for the current cycle
TraceRow(op) ==
    [clk |-> clk, stack |-> stack, b0 |-> active_depth,
     b1 |-> overflow.last_row_addr, ctx |-> Len(ctxs), op |-> op]

\* a cycle that succeeded: its row is appended, the stack and the memory
\* replaced
CycleWith(op, s, newctxs, newmemory) ==
    /\ status.ok
    /\ clk < MaxClk
    /\ trace' = Append(trace, TraceRow(op))
    /\ clk' = clk + 1
    /\ stack' = s.stack
    /\ active_depth' = s.active_depth
    /\ overflow' = s.overflow
    /\ ctxs' = newctxs
    /\ memory' = newmemory
    /\ UNCHANGED <<status, adviceVars, hasher, flowVars>>

\* a cycle that does not access the memory
Cycle(op, s, newctxs) == CycleWith(op, s, newctxs, memory)

\* the first cycle of a program starts a block; the others execute operations
Noop == Cycle("noop", StackState, ctxs)

Push ==
    /\ clk > 0
    /\ \E val \in PushVals : Cycle("push", shift_right(StackState, clk, val), ctxs)

Drop ==
    /\ clk > 0
    /\ Cycle("drop", shift_left(StackState), ctxs)

\* the memory context of the procedure that is executing: 0 for the program,
\* for a called procedure the one it was given when it was called
CurrentCtx == IF ctxs = <<>> THEN 0 ELSE ctxs[Len(ctxs)].ctx

\* the start of a called procedure, had it kept the memory context of the
\* caller
StartCallSameCtx(op) ==
    LET started == start_context(StackState)
    IN Cycle(op, started.s,
             Append(ctxs, [depth |-> started.saved.depth,
                           overflow_addr |-> started.saved.overflow_addr,
                           ctx |-> CurrentCtx]))

\* the start of a called procedure: a new context of the stack, and a new
\* memory context named after the next clock cycle
StartCall(op) ==
    LET started == start_context(StackState)
    IN Cycle(op, started.s,
             Append(ctxs, [depth |-> started.saved.depth,
                           overflow_addr |-> started.saved.overflow_addr,
                           ctx |-> clk + 1]))

CallOp ==
    /\ clk > 0
    /\ Len(ctxs) < MaxCalls
    /\ StartCall("call")

EndOp ==
    /\ clk > 0
    /\ ctxs # <<>>
    /\ status.ok
    /\ clk < MaxClk
    /\ LET r == end_call(StackState, ctxs[Len(ctxs)])
       IN IF r.ok
          THEN Cycle("end", r.val, SubSeq(ctxs, 1, Len(ctxs) - 1))
          ELSE /\ status' = r
               /\ UNCHANGED <<clk, stack, active_depth, overflow, ctxs, trace,
                              adviceVars, chipletVars, flowVars>>

\* the overflow table of a stack of 16 + m inputs: the deepest input first
RECURSIVE InitTable(_, _)
InitTable(m, k) ==
    IF k = 0 THEN EmptyTable
    ELSE [OverflowPush(InitTable(m, k - 1), k, k - 1 - m) EXCEPT !.num_init_rows = k]

\* Stack::new: the inputs 1..n with the last on top
StackOfInputs(n) ==
    /\ clk = 0
    /\ stack = [i \in 1..MIN_STACK_DEPTH |-> n + 1 - i]
    /\ active_depth = n
    /\ overflow = InitTable(n - MIN_STACK_DEPTH, n - MIN_STACK_DEPTH)
    /\ ctxs = <<>>
    /\ trace = <<>>
    /\ status = Ok(<<>>)
    /\ ChipletsIdle
    /\ FlowIdle

InitStack ==
    /\ Provided([advice_tape |-> <<>>, advice_map |-> OneKeyMap, advice_sets |-> OneSet])
    /\ \E n \in MIN_STACK_DEPTH..(MIN_STACK_DEPTH + MaxInitRows) : StackOfInputs(n)

NextStack == Noop \/ Push \/ Drop \/ CallOp \/ EndOp

SpecStack == InitStack /\ [][NextStack]_vars

(***************************************************************************)
(* The auxiliary column of the overflow table.  Its values are products of *)
(* powers of the values of rows: a function from rows to exponents that    *)
(* are not zero, the values of different rows being independent.           *)
(***************************************************************************)
ONE == [r \in {} |-> 0]

Exponent(e, r) == IF r \in DOMAIN e THEN e[r] ELSE 0

FieldMul(a, b) ==
    LET rows == {r \in DOMAIN a \cup DOMAIN b : Exponent(a, r) + Exponent(b, r) # 0}
    IN [r \in rows |-> Exponent(a, r) + Exponent(b, r)]

FieldInv(a) == [r \in DOMAIN a |-> 0 - a[r]]

\* OverflowTableRow::to_value
to_value(row) == [r \in {row} |-> 1]

\* the main trace of the execution so far, padded with the current state
MainTrace == Append(trace, TraceRow("halt"))

\* the columns of the main trace, rows counted from 0
main_clk(main_trace, i) == main_trace[i + 1].clk
stack_element(main_trace, col, i) == main_trace[i + 1].stack[col + 1]
parent_overflow_address(main_trace, i) == main_trace[i + 1].b1
is_left_shift(main_trace, i) == main_trace[i + 1].op = "drop"
is_right_shift(main_trace, i) == main_trace[i + 1].op = "push"
is_non_empty_overflow(main_trace, i) == main_trace[i + 1].b0 > MIN_STACK_DEPTH

\* Stack::into_trace: the builder of the auxiliary columns
AuxTraceBuilder ==
    [overflow_table_rows |-> overflow.all_rows, num_init_rows |-> overflow.num_init_rows]

RECURSIVE RowsProduct(_, _)
RowsProduct(rows, n) ==
    IF n = 0 THEN ONE ELSE FieldMul(RowsProduct(rows, n - 1), to_value(rows[n]))

\* init_responses, had it taken every row the builder holds
init_responses_all_rows(self) ==
    RowsProduct(self.overflow_table_rows, Len(self.overflow_table_rows))

init_responses(self) == RowsProduct(self.overflow_table_rows, self.num_init_rows)

\* get_requests_at, had it read the last visible element of the same row
get_requests_at_same_row(main_trace, i) ==
    IF is_left_shift(main_trace, i) /\ is_non_empty_overflow(main_trace, i)
    THEN to_value(OverflowTableRow(parent_overflow_address(main_trace, i),
                                   stack_element(main_trace, 15, i),
                                   parent_overflow_address(main_trace, i + 1)))
    ELSE ONE

\* get_requests_at, had it not looked whether the overflow table is empty
get_requests_at_any_left_shift(main_trace, i) ==
    IF is_left_shift(main_trace, i)
    THEN to_value(OverflowTableRow(parent_overflow_address(main_trace, i),
                                   stack_element(main_trace, 15, i + 1),
                                   parent_overflow_address(main_trace, i + 1)))
    ELSE ONE

\* get_requests_at, had it taken the parent address of the same row twice
get_requests_at_same_parent(main_trace, i) ==
    IF is_left_shift(main_trace, i) /\ is_non_empty_overflow(main_trace, i)
    THEN to_value(OverflowTableRow(parent_overflow_address(main_trace, i),
                                   stack_element(main_trace, 15, i + 1),
                                   parent_overflow_address(main_trace, i)))
    ELSE ONE

\* get_requests_at, had it named the row by the clock of its removal
get_requests_at_this_clk(main_trace, i) ==
    IF is_left_shift(main_trace, i) /\ is_non_empty_overflow(main_trace, i)
    THEN to_value(OverflowTableRow(main_clk(main_trace, i),
                                   stack_element(main_trace, 15, i + 1),
                                   parent_overflow_address(main_trace, i + 1)))
    ELSE ONE

get_requests_at(main_trace, i) ==
    IF is_left_shift(main_trace, i) /\ is_non_empty_overflow(main_trace, i)
    THEN to_value(OverflowTableRow(parent_overflow_address(main_trace, i),
                                   stack_element(main_trace, 15, i + 1),
                                   parent_overflow_address(main_trace, i + 1)))
    ELSE ONE

\* get_responses_at, had it taken the parent address of the next row
get_responses_at_next_parent(main_trace, i) ==
    IF is_right_shift(main_trace, i)
    THEN to_value(OverflowTableRow(main_clk(main_trace, i),
                                   stack_element(main_trace, 15, i),
                                   parent_overflow_address(main_trace, i + 1)))
    ELSE ONE

\* get_responses_at, had it read the last visible element of the next row
get_responses_at_next_value(main_trace, i) ==
    IF is_right_shift(main_trace, i)
    THEN to_value(OverflowTableRow(main_clk(main_trace, i),
                                   stack_element(main_trace, 15, i + 1),
                                   parent_overflow_address(main_trace, i)))
    ELSE ONE

get_responses_at(main_trace, i) ==
    IF is_right_shift(main_trace, i)
    THEN to_value(OverflowTableRow(main_clk(main_trace, i),
                                   stack_element(main_trace, 15, i),
                                   parent_overflow_address(main_trace, i)))
    ELSE ONE

\* AuxColumnBuilder::build_aux_column: the value of the column at row i
RECURSIVE build_aux_column(_, _, _)
build_aux_column(self, main_trace, i) ==
    IF i = 0 THEN init_responses(self)
    ELSE FieldMul(FieldMul(build_aux_column(self, main_trace, i - 1),
                           get_responses_at(main_trace, i - 1)),
                  FieldInv(get_requests_at(main_trace, i - 1)))

\* the column p1 at the last row of the trace
FinalValue == build_aux_column(AuxTraceBuilder, MainTrace, Len(trace))

\* the product of the response factors of the first n rows of the trace
RECURSIVE Responses(_, _)
Responses(main_trace, n) ==
    IF n = 0 THEN ONE
    ELSE FieldMul(Responses(main_trace, n - 1), get_responses_at(main_trace, n - 1))

\* the product of the request factors of the first n rows of the trace
RECURSIVE Requests(_, _)
Requests(main_trace, n) ==
    IF n = 0 THEN ONE
    ELSE FieldMul(Requests(main_trace, n - 1), get_requests_at(main_trace, n - 1))

\* the product of the values of the rows now in the overflow table
RECURSIVE ActiveProduct(_, _)
ActiveProduct(table, n) ==
    IF n = 0 THEN ONE
    ELSE FieldMul(ActiveProduct(table, n - 1),
                  to_value(table.all_rows[table.active_rows[n]]))

Remaining == ActiveProduct(overflow, Len(overflow.active_rows))

\* C16 as stated: the rows added, one per right shift, are the rows removed,
\* one per left shift on a table that is not empty, and the rows still in the
\* table at the end of the run.
C16_AddedAreRemovedOrRemain ==
    Responses(MainTrace, Len(trace)) = FieldMul(Requests(MainTrace, Len(trace)), Remaining)

\* C16: the rows present before the execution and the rows added, one per
\* right shift, are the rows removed, one per left shift on a table that is
\* not empty, and the rows still in the table at the end of the run; at no
\* row of the trace has a row been removed that was not in the table, or
\* removed twice.
C16_InitialAndAddedAreRemovedOrRemain ==
    /\ FieldMul(init_responses(AuxTraceBuilder), Responses(MainTrace, Len(trace)))
          = FieldMul(Requests(MainTrace, Len(trace)), Remaining)
    /\ \A k \in 0..Len(trace) :
          LET p1 == build_aux_column(AuxTraceBuilder, MainTrace, k)
          IN \A r \in DOMAIN p1 : p1[r] = 1

\* rows were added and removed, an initial row among the removed, and a row
\* remains in the table
C16_Witness ==
    /\ overflow.num_init_rows > 0
    /\ Responses(MainTrace, Len(trace)) # ONE
    /\ \E r \in DOMAIN Requests(MainTrace, Len(trace)) : r.clk < 0
    /\ Remaining # ONE

\* the value of the column at the last row, from the factors of all rows
FactorsInOrder ==
    FieldMul(FieldMul(init_responses(AuxTraceBuilder), Responses(MainTrace, Len(trace))),
             FieldInv(Requests(MainTrace, Len(trace))))

\* no row added by a right shift is in the overflow table
AddedRowsRemoved ==
    \A n \in 1..Len(overflow.active_rows) :
        overflow.active_rows[n] <= overflow.num_init_rows

\* the rows present before the execution are all in the overflow table
InitialRowsKept ==
    \A k \in 1..overflow.num_init_rows :
        k <= Len(overflow.active_rows) /\ overflow.active_rows[k] = k

\* C17 as stated: the value of the column at the last row is the initial
\* value times the response factors over the request factors of all rows, and
\* it is the initial value when every row added has been removed.
C17_FinalIsInitialWhenAddedRemoved ==
    /\ FinalValue = FactorsInOrder
    /\ AddedRowsRemoved => FinalValue = init_responses(AuxTraceBuilder)

\* C17: the value of the column at the last row is the initial value times
\* the response factors over the request factors of all rows, and it is the
\* initial value when every row added has been removed and no row present
\* before the execution has been removed.
C17_FinalIsInitialWhenTableRestored ==
    /\ FinalValue = FactorsInOrder
    /\ (AddedRowsRemoved /\ InitialRowsKept) => FinalValue = init_responses(AuxTraceBuilder)

\* rows were added on top of an initial row and all of them removed again
C17_Witness ==
    /\ overflow.num_init_rows > 0
    /\ Responses(MainTrace, Len(trace)) # ONE
    /\ AddedRowsRemoved
    /\ InitialRowsKept
    /\ FinalValue = init_responses(AuxTraceBuilder)
    /\ FinalValue # ONE

\* each row of the trace has the events of its operation: one add for a
\* right shift, one remove for a left shift at a depth above 16, none for
\* any other row; and the table has gained and lost as many rows
OneEventPerCrossing ==
    /\ \A i \in 0..(Len(trace) - 1) :
          LET request == get_requests_at(MainTrace, i)
              response == get_responses_at(MainTrace, i)
          IN IF is_right_shift(MainTrace, i)
             THEN response # ONE /\ request = ONE
             ELSE IF is_left_shift(MainTrace, i) /\ MainTrace[i + 1].b0 > MIN_STACK_DEPTH
             THEN request # ONE /\ response = ONE
             ELSE request = ONE /\ response = ONE
    /\ Cardinality(DOMAIN Responses(MainTrace, Len(trace)))
          = Len(overflow.all_rows) - overflow.num_init_rows
    /\ Cardinality(DOMAIN Requests(MainTrace, Len(trace)))
          = Len(overflow.all_rows) - Len(overflow.active_rows)

\* the rows of the callers of the current procedure: what their stacks held
\* beyond the 16 visible elements when they called
RECURSIVE HiddenRows(_)
HiddenRows(saved) ==
    IF saved = <<>> THEN 0
    ELSE (saved[1].depth - MIN_STACK_DEPTH) + HiddenRows(Tail(saved))

\* C18 as stated: one event for each shift that crosses the boundary of the
\* 16 visible elements, none for any other step, and the number of rows in
\* the table is the depth of the stack minus 16.
C18_RowsAreDepthMinus16 ==
    /\ OneEventPerCrossing
    /\ Len(overflow.active_rows) = active_depth - MIN_STACK_DEPTH

\* C18: one event for each shift that crosses the boundary of the 16 visible
\* elements, none for any other step, and the number of rows in the table is
\* the depth of the stack minus 16 plus the rows the callers of the current
\* procedure had in the table when they called.
C18_RowsAreDepthMinus16PlusHidden ==
    /\ OneEventPerCrossing
    /\ Len(overflow.active_rows) = active_depth - MIN_STACK_DEPTH + HiddenRows(ctxs)

\* a called procedure whose caller has a row in the table has pushed, dropped
\* and dropped again at depth 16
C18_Witness ==
    /\ ctxs # <<>>
    /\ HiddenRows(ctxs) > 0
    /\ \E i, j, k \in 1..Len(trace) :
          /\ trace[i].ctx = 1 /\ trace[i].op = "push"
          /\ trace[j].ctx = 1 /\ trace[j].op = "drop" /\ trace[j].b0 > MIN_STACK_DEPTH
          /\ trace[k].ctx = 1 /\ trace[k].op = "drop" /\ trace[k].b0 = MIN_STACK_DEPTH

\* C19: the return from a called procedure at a depth above 16 ends the
\* execution with InvalidStackDepthOnReturn of that depth, and no return has
\* been executed at a depth above 16.
C19_DepthOnReturn ==
    /\ ~status.ok =>
          /\ ctxs # <<>>
          /\ active_depth > MIN_STACK_DEPTH
          /\ status.val = InvalidStackDepthOnReturn(active_depth)
    /\ \A i \in 1..Len(trace) : trace[i].op = "end" => trace[i].b0 = MIN_STACK_DEPTH

\* a procedure called at depth 16 pushed one value and returned
C19_Witness ==
    /\ ~status.ok
    /\ status.val = InvalidStackDepthOnReturn(17)
    /\ ctxs # <<>>
    /\ ctxs[Len(ctxs)].depth = MIN_STACK_DEPTH
    /\ trace[Len(trace)].op = "push"
    /\ trace[Len(trace)].b0 = MIN_STACK_DEPTH

\* the address of the top row of the current procedure, 0 when it has none
TopRowAddr ==
    IF Len(overflow.active_rows) > HiddenRows(ctxs)
    THEN overflow.all_rows[overflow.active_rows[Len(overflow.active_rows)]].clk
    ELSE 0

\* the rows of the table that belong to the callers of the current procedure
CallerRows == SubSeq(overflow.active_rows, 1, HiddenRows(ctxs))

\* C20: a called procedure starts at depth 16 with no row of its own; while
\* it runs, the rows of its callers stay in the table as they were, and a
\* drop at depth 16 shifts in a zero and leaves the table alone; after the
\* return the table holds the rows of the caller, in their order, the depth
\* and the top row are those of the caller.
C20_CallerRowsKept ==
    [][/\ Len(ctxs') > Len(ctxs) =>
             /\ active_depth' = MIN_STACK_DEPTH
             /\ overflow'.last_row_addr = 0
             /\ overflow'.active_rows = overflow.active_rows
             /\ overflow'.all_rows = overflow.all_rows
       /\ (ctxs # <<>> /\ ctxs' = ctxs) =>
             /\ Len(overflow.active_rows) >= HiddenRows(ctxs)
             /\ Len(overflow'.active_rows) >= HiddenRows(ctxs)
             /\ SubSeq(overflow'.active_rows, 1, HiddenRows(ctxs)) = CallerRows
             /\ SubSeq(overflow'.all_rows, 1, Len(overflow.all_rows)) = overflow.all_rows
             /\ (/\ Len(trace') > Len(trace)
                 /\ trace'[Len(trace')].op = "drop"
                 /\ active_depth = MIN_STACK_DEPTH) =>
                    /\ stack'[MIN_STACK_DEPTH] = 0
                    /\ overflow' = overflow
                    /\ active_depth' = MIN_STACK_DEPTH
       /\ Len(ctxs') < Len(ctxs) =>
             /\ Len(overflow.active_rows) >= HiddenRows(ctxs)
             /\ overflow'.active_rows = CallerRows
             /\ overflow'.all_rows = overflow.all_rows
             /\ active_depth' = ctxs[Len(ctxs)].depth
             /\ overflow'.last_row_addr = TopRowAddr'
             /\ stack' = stack
      ]_vars

\* the caller had a row in the table, the procedure it called dropped at
\* depth 16 and returned, and a drop of the caller brought the row back
C20_Witness ==
    /\ status.ok
    /\ ctxs = <<>>
    /\ \E i, j, k \in 1..Len(trace) :
          /\ i < j /\ j < k /\ k < Len(trace)
          /\ trace[i].op = "call" /\ trace[i].b0 > MIN_STACK_DEPTH
          /\ trace[j].op = "drop" /\ trace[j].ctx = 1 /\ trace[j].b0 = MIN_STACK_DEPTH
          /\ trace[k].op = "end"
          /\ trace[Len(trace)].op = "drop"
          /\ trace[Len(trace)].b0 = trace[i].b0
          /\ \E n \in 1..Len(overflow.all_rows) :
                /\ overflow.all_rows[n].clk = trace[i].b1
                /\ stack[MIN_STACK_DEPTH] = overflow.all_rows[n].val
                /\ stack[MIN_STACK_DEPTH] # 0

\* the value of the one row of the table with this clock, value and parent
ValueOfRow(c, val, prev) == [r \in {[clk |-> c, val |-> val, prev |-> prev]} |-> 1]

\* C27: the request factor of a row is not one only when the row is a left
\* shift at a depth above 16, which is when the next row is one less deep;
\* it is then the value of the row (b1 of the row, last visible element of
\* the next row, b1 of the next row); every other row contributes one.
C27_RequestOnlyAtLeftShiftOnRows ==
    \A i \in 0..(Len(trace) - 1) :
        LET this == MainTrace[i + 1]
            next == MainTrace[i + 2]
            request == get_requests_at(MainTrace, i)
        IN /\ (this.op = "drop" /\ this.b0 > MIN_STACK_DEPTH) =>
                 /\ request = ValueOfRow(this.b1, next.stack[MIN_STACK_DEPTH], next.b1)
                 /\ next.b0 = this.b0 - 1
           /\ (this.op # "drop" \/ this.b0 = MIN_STACK_DEPTH) =>
                 /\ request = ONE
                 /\ next.b0 >= this.b0 \/ this.op = "call"

\* a left shift at depth 16 contributed one, a later one at a depth above 16
\* did not
C27_Witness ==
    \E i, j \in 0..(Len(trace) - 1) :
        /\ i < j
        /\ trace[i + 1].op = "drop" /\ trace[i + 1].b0 = MIN_STACK_DEPTH
        /\ get_requests_at(MainTrace, i) = ONE
        /\ trace[j + 1].op = "drop" /\ trace[j + 1].b0 > MIN_STACK_DEPTH
        /\ get_requests_at(MainTrace, j) # ONE

\* C28: the response factor of a row is the value of the row (clock of the
\* row, its last visible element, its b1) when the row is a right shift,
\* and that row is then in the table; it is one on every other row; no row
\* has a request factor and a response factor that are both not one.
C28_ResponseOnlyAtRightShift ==
    \A i \in 0..(Len(trace) - 1) :
        LET this == MainTrace[i + 1]
            next == MainTrace[i + 2]
            response == get_responses_at(MainTrace, i)
        IN /\ this.op = "push" =>
                 /\ response = ValueOfRow(this.clk, this.stack[MIN_STACK_DEPTH], this.b1)
                 /\ next.b0 = this.b0 + 1
                 /\ next.b1 = this.clk
                 /\ \E n \in 1..Len(overflow.all_rows) :
                       to_value(overflow.all_rows[n]) = response
           /\ this.op # "push" => response = ONE
           /\ response = ONE \/ get_requests_at(MainTrace, i) = ONE

\* a right shift moved an input of the program to the table, and a later
\* row removed it
C28_Witness ==
    \E i, j \in 0..(Len(trace) - 1) :
        /\ i < j
        /\ trace[i + 1].op = "push"
        /\ trace[i + 1].stack[MIN_STACK_DEPTH] # 0
        /\ get_responses_at(MainTrace, i) # ONE
        /\ get_requests_at(MainTrace, j) = get_responses_at(MainTrace, i)

\* the rows of the trace before row i that added a row no row before i removed
AddedNotRemoved(i) ==
    {j \in 0..(i - 1) :
        /\ get_responses_at(MainTrace, j) # ONE
        /\ \A k \in (j + 1)..(i - 1) :
              get_requests_at(MainTrace, k) # get_responses_at(MainTrace, j)}

\* the rows present before the execution that no row before i removed
InitialNotRemoved(i) ==
    {n \in 1..overflow.num_init_rows :
        \A k \in 0..(i - 1) :
            get_requests_at(MainTrace, k) # to_value(overflow.all_rows[n])}

Latest(S) == CHOOSE n \in S : \A m \in S : m <= n

\* C29: the rows leave the table last in, first out: the request factor of
\* a left shift at a depth above 16 is the response factor of the latest
\* right shift whose row has not been removed, or, when there is none, the
\* value of the last of the initial rows that has not been removed.
C29_RemovedIsLastAdded ==
    \A i \in 0..(Len(trace) - 1) :
        get_requests_at(MainTrace, i) # ONE =>
            IF AddedNotRemoved(i) # {}
            THEN get_requests_at(MainTrace, i)
                    = get_responses_at(MainTrace, Latest(AddedNotRemoved(i)))
            ELSE /\ InitialNotRemoved(i) # {}
                 /\ get_requests_at(MainTrace, i)
                       = to_value(overflow.all_rows[Latest(InitialNotRemoved(i))])

\* two rows were added, the second was removed first, then the first, then
\* a row present before the execution
C29_Witness ==
    /\ Len(trace) = 6
    /\ overflow.num_init_rows = 1
    /\ get_responses_at(MainTrace, 1) # ONE
    /\ get_responses_at(MainTrace, 2) # ONE
    /\ get_requests_at(MainTrace, 3) = get_responses_at(MainTrace, 2)
    /\ get_requests_at(MainTrace, 4) = get_responses_at(MainTrace, 1)
    /\ get_requests_at(MainTrace, 5) = to_value(overflow.all_rows[1])

\* the rows the builder holds that were in the table before the first cycle
RowsBeforeExecution ==
    {n \in 1..Len(overflow.all_rows) : overflow.all_rows[n].clk < 0}

\* C30: the initial value of the column is the product of the values of the
\* first num_init_rows rows of the builder, the rows present before the
\* execution, one of each; it is one when the program starts at depth 16;
\* the rows added by the execution are not in it.
C30_InitialValueOfInitialRows ==
    LET initial == build_aux_column(AuxTraceBuilder, MainTrace, 0)
    IN /\ RowsBeforeExecution = 1..overflow.num_init_rows
       /\ initial = [r \in {overflow.all_rows[n] : n \in RowsBeforeExecution} |-> 1]
       /\ MainTrace[1].b0 = MIN_STACK_DEPTH + overflow.num_init_rows
       /\ MainTrace[1].b0 = MIN_STACK_DEPTH => initial = ONE

\* a program that started with a row in the table added another
C30_Witness ==
    /\ overflow.num_init_rows = 1
    /\ Len(overflow.all_rows) > overflow.num_init_rows
    /\ build_aux_column(AuxTraceBuilder, MainTrace, 0) = to_value(overflow.all_rows[1])

(***************************************************************************)
(* The hasher chiplet: one transition of a round of its permutation under  *)
(* the constraints.  The field here is the prime field of MODULUS elements *)
(* and the state has STATE_WIDTH elements; the power of the S-box is a     *)
(* permutation of this field as it is of the field of the VM.              *)
(***************************************************************************)
MODULUS == 5
STATE_WIDTH == 3
NUM_ROUNDS == 7

FieldElements == 0..(MODULUS - 1)
HasherStates == [1..STATE_WIDTH -> FieldElements]

FAdd(a, b) == (a + b) % MODULUS
FSub(a, b) == (a + MODULUS - b) % MODULUS
FMul(a, b) == (a * b) % MODULUS

\* the selectors that start a linear hash
LINEAR_HASH == <<1, 0, 0>>

\* the round constants of the rounds 0..6, two vectors for each
ARK1(round) == [i \in 1..STATE_WIDTH |-> (round + i) % MODULUS]
ARK2(round) == [i \in 1..STATE_WIDTH |-> (2 * round + 3 * i + 1) % MODULUS]

\* the S-box: the seventh power of each element
Pow7(x) == FMul(x, FMul(FMul(x, FMul(x, x)), FMul(x, FMul(x, x))))
apply_sbox(state) == [i \in 1..STATE_WIDTH |-> Pow7(state[i])]

\* the linear layer: the product with the circulant matrix of first row 2, 1, 1
MDS(i, j) == IF i = j THEN 2 ELSE 1

RECURSIVE MdsRow(_, _, _)
MdsRow(state, i, j) ==
    IF j = 0 THEN 0 ELSE FAdd(MdsRow(state, i, j - 1), FMul(MDS(i, j), state[j]))

apply_mds(state) == [i \in 1..STATE_WIDTH |-> MdsRow(state, i, STATE_WIDTH)]

add_constants(state, ark) == [i \in 1..STATE_WIDTH |-> FAdd(state[i], ark[i])]

\* one round with the given constants: constants, S-box, linear layer, twice
RoundWith(state, ark1, ark2) ==
    apply_mds(apply_sbox(add_constants(
        apply_mds(apply_sbox(add_constants(state, ark1))), ark2)))

\* vm_core::chiplets::hasher::apply_round
apply_round(state, round) == RoundWith(state, ARK1(round), ARK2(round))

\* a row of the trace of the chiplet
HasherRow(selectors, state, node_index) ==
    [selectors |-> selectors, state |-> state, node_index |-> node_index]

ZeroState == [i \in 1..STATE_WIDTH |-> 0]

\* get_test_periodic_values, had every row the values of the last of a cycle
get_test_periodic_values_last_row(cycle_row) ==
    <<1, 0, 0>> \o ZeroState \o ZeroState

\* the values of the periodic columns at a row of the cycle: three flags,
\* then the constants of the round
get_test_periodic_values(cycle_row) ==
    LET flags == CASE cycle_row = 0 -> <<0, 0, 1>>
                   [] cycle_row = 7 -> <<0, 1, 0>>
                   [] cycle_row = 8 -> <<1, 0, 0>>
                   [] OTHER -> <<0, 0, 0>>
    IN IF cycle_row = 7
       THEN flags \o ZeroState \o ZeroState
       ELSE flags \o ARK1(cycle_row) \o ARK2(cycle_row)

\* get_test_hashing_frame, had it left the state of the next row as it was
get_test_hashing_frame_no_round(current_selectors, next_selectors, cycle_row_num, state) ==
    [current |-> HasherRow(current_selectors, state, 0),
     next |-> HasherRow(next_selectors, state, 0)]

\* the frame of a transition that computes one round from a given state
get_test_hashing_frame(current_selectors, next_selectors, cycle_row_num, state) ==
    [current |-> HasherRow(current_selectors, state, 0),
     next |-> HasherRow(next_selectors, apply_round(state, cycle_row_num), 0)]

\* enforce_constraints: the selectors are binary; the second and third are
\* copied to the next row except around the row of the output; the node
\* index is kept on the rows that neither absorb a node nor return; on all
\* rows but the last of a cycle the state of the next row is the round of
\* the current state with the constants of the periodic columns
enforce_constraints(frame, periodic_values, composition_coefficient) ==
    LET k0 == periodic_values[1]
        k1 == periodic_values[2]
        ark1 == SubSeq(periodic_values, 4, 3 + STATE_WIDTH)
        ark2 == SubSeq(periodic_values, 4 + STATE_WIDTH, 3 + 2 * STATE_WIDTH)
        s == frame.current.selectors
        sn == frame.next.selectors
        not(x) == FSub(1, x)
        f_out == FMul(k0, FMul(not(s[1]), not(s[2])))
        f_out_next == FMul(k1, FMul(not(sn[1]), not(sn[2])))
        f_an == FMul(k0, s[1])
        copied == FMul(not(f_out), not(f_out_next))
        expected == RoundWith(frame.current.state, ark1, ark2)
        binary == [j \in 1..3 |-> FMul(s[j], FSub(s[j], 1))]
        copy == <<FMul(copied, FSub(sn[2], s[2])), FMul(copied, FSub(sn[3], s[3]))>>
        index == <<FMul(FSub(not(f_an), f_out),
                        FSub(frame.next.node_index, frame.current.node_index))>>
        round == [i \in 1..STATE_WIDTH |->
                     FMul(not(k0), FSub(frame.next.state[i], expected[i]))]
        all == binary \o copy \o index \o round
    IN [n \in 1..Len(all) |-> FMul(composition_coefficient, all[n])]

\* get_constraint_evaluation
get_constraint_evaluation(frame, cycle_row_num) ==
    enforce_constraints(frame, get_test_periodic_values(cycle_row_num), 1)

\* the rows of a cycle that continue a linear hash
CycleRows == 1..(NUM_ROUNDS - 1)

\* the selectors of a row that continues a linear hash
ContinueHash == <<0, LINEAR_HASH[2], LINEAR_HASH[3]>>

\* the test hash_round before the evaluation: a frame of one round from any
\* state, at any row that continues a hash
InitHasher ==
    /\ Provided([advice_tape |-> <<>>, advice_map |-> OneKeyMap, advice_sets |-> OneSet])
    /\ StackIdle
    /\ \E cycle_row_num \in CycleRows, state \in HasherStates :
          hasher = [cycle_row |-> cycle_row_num,
                    frame |-> get_test_hashing_frame(ContinueHash, ContinueHash,
                                                     cycle_row_num, state),
                    mutated |-> 0,
                    evaluated |-> FALSE,
                    result |-> <<>>]
    /\ memory = <<>>
    /\ FlowIdle

\* one element of the state of the next row is replaced by another value
MutateNext ==
    /\ ~hasher.evaluated
    /\ hasher.mutated = 0
    /\ \E i \in 1..STATE_WIDTH, v \in FieldElements :
          /\ v # hasher.frame.next.state[i]
          /\ hasher' = [hasher EXCEPT !.frame.next.state[i] = v, !.mutated = i]
    /\ UNCHANGED <<adviceVars, stackVars, memory, flowVars>>

Evaluate ==
    /\ ~hasher.evaluated
    /\ hasher' = [hasher EXCEPT
                     !.result = get_constraint_evaluation(hasher.frame, hasher.cycle_row),
                     !.evaluated = TRUE]
    /\ UNCHANGED <<adviceVars, stackVars, memory, flowVars>>

NextHasher == MutateNext \/ Evaluate

SpecHasher == InitHasher /\ [][NextHasher]_vars

\* the elements of the state of the next row that are not those of the round
NotOfRound ==
    {i \in 1..STATE_WIDTH :
        hasher.frame.next.state[i]
            # apply_round(hasher.frame.current.state, hasher.cycle_row)[i]}

\* both rows continue a linear hash at node index 0, at a row 1..6 of the cycle
HashRoundFrame ==
    /\ hasher.cycle_row \in 1..6
    /\ hasher.frame.current.selectors = ContinueHash
    /\ hasher.frame.next.selectors = ContinueHash
    /\ hasher.frame.current.node_index = 0
    /\ hasher.frame.next.node_index = 0

\* C21: the frame the test builds has in its next row one round of the
\* current state at the row of the cycle, and for every such frame every
\* entry of the result of the evaluation is zero.
C21_ValidRoundEvaluatesToZero ==
    /\ hasher.mutated = 0 => NotOfRound = {}
    /\ (hasher.evaluated /\ HashRoundFrame /\ NotOfRound = {}) =>
           /\ Len(hasher.result) > 0
           /\ \A n \in 1..Len(hasher.result) : hasher.result[n] = 0

\* the frame of row 3 from a state that is not zero was evaluated
C21_Witness ==
    /\ hasher.evaluated
    /\ hasher.cycle_row = 3
    /\ hasher.mutated = 0
    /\ hasher.frame.current.state = <<1, 2, 3>>
    /\ hasher.frame.next.state = apply_round(<<1, 2, 3>>, 3)
    /\ \A n \in 1..Len(hasher.result) : hasher.result[n] = 0

\* C22: when one element of the state of the next row is not that of the
\* round, some entry of the result of the evaluation is not zero.
C22_MutatedRoundEvaluatesToNonZero ==
    (hasher.evaluated /\ HashRoundFrame /\ Cardinality(NotOfRound) = 1) =>
        \E n \in 1..Len(hasher.result) : hasher.result[n] # 0

\* the last element of the next row of a frame of row 3 was changed and the
\* frame evaluated
C22_Witness ==
    /\ hasher.evaluated
    /\ hasher.cycle_row = 3
    /\ hasher.mutated = STATE_WIDTH
    /\ NotOfRound = {STATE_WIDTH}
    /\ \E n \in 1..Len(hasher.result) : hasher.result[n] # 0

(***************************************************************************)
(* The memory: the accesses made so far, each with the memory context, the *)
(* address, the clock cycle and the value read or written.  A procedure    *)
(* started by call or dyncall runs in a memory context of its own.         *)
(***************************************************************************)
MemAddrs == {0, 1}

\* the accesses to an address in a context, in order
AccessesTo(mem, ctx, addr) ==
    SelectSeq(mem, LAMBDA a : a.ctx = ctx /\ a.addr = addr)

\* Memory::get_value: the value of the last access, zero when there is none
MemValue(mem, ctx, addr) ==
    LET accesses == AccessesTo(mem, ctx, addr)
    IN IF accesses = <<>> THEN 0 ELSE accesses[Len(accesses)].val

\* Memory::read
mem_read(mem, ctx, addr, c) ==
    Append(mem, [ctx |-> ctx, addr |-> addr, clk |-> c, val |-> MemValue(mem, ctx, addr)])

\* Memory::write
mem_write(mem, ctx, addr, c, val) ==
    Append(mem, [ctx |-> ctx, addr |-> addr, clk |-> c, val |-> val])

\* mem_store.addr: the top of the stack is removed and written
MemStore ==
    /\ clk > 0
    /\ \E addr \in MemAddrs :
          CycleWith("mem_store", shift_left(StackState), ctxs,
                    mem_write(memory, CurrentCtx, addr, clk, stack[1]))

\* mem_load.addr: the value read is pushed
MemLoad ==
    /\ clk > 0
    /\ \E addr \in MemAddrs :
          CycleWith("mem_load",
                    shift_right(StackState, clk, MemValue(memory, CurrentCtx, addr)),
                    ctxs, mem_read(memory, CurrentCtx, addr, clk))

DynCallOp ==
    /\ clk > 0
    /\ Len(ctxs) < MaxCalls
    /\ StartCall("dyncall")

InitMem ==
    /\ Provided([advice_tape |-> <<>>, advice_map |-> OneKeyMap, advice_sets |-> OneSet])
    /\ StackOfInputs(MIN_STACK_DEPTH)

NextMem == Noop \/ MemStore \/ MemLoad \/ CallOp \/ DynCallOp \/ EndOp

SpecMem == InitMem /\ [][NextMem]_vars

\* the rows of the calls that are open after the first k rows of the trace,
\* the innermost last
RECURSIVE OpenCalls(_, _)
OpenCalls(rows, k) ==
    IF k = 0 THEN <<>>
    ELSE LET open == OpenCalls(rows, k - 1)
         IN IF rows[k].op \in {"call", "dyncall"} THEN Append(open, k)
            ELSE IF rows[k].op = "end" THEN SubSeq(open, 1, Len(open) - 1)
            ELSE open

\* the invocation that executes the cycle c: the row of its call, 0 for the
\* program itself
InvocationAt(c) ==
    LET open == OpenCalls(trace, c)
    IN IF open = <<>> THEN 0 ELSE open[Len(open)]

\* the accesses before the n-th to the same address by the same invocation
EarlierInInvocation(n) ==
    {m \in 1..(n - 1) :
        /\ memory[m].addr = memory[n].addr
        /\ InvocationAt(memory[m].clk) = InvocationAt(memory[n].clk)}

\* C23: a load reads the value of the last access of the same invocation to
\* the address, and zero when the invocation has not accessed the address,
\* whatever its caller or a procedure it called has stored there; the value
\* read is the value pushed.
C23_MemoryOfInvocation ==
    \A n \in 1..Len(memory) :
        trace[memory[n].clk + 1].op = "mem_load" =>
            LET earlier == EarlierInInvocation(n)
                pushed == MainTrace[memory[n].clk + 2].stack[1]
            IN /\ pushed = memory[n].val
               /\ IF earlier = {} THEN memory[n].val = 0
                  ELSE memory[n].val = memory[CHOOSE m \in earlier :
                                                  \A o \in earlier : o <= m].val

\* the program stored at an address, called a procedure that stored another
\* value there, and after the return read its own value
C23_Witness ==
    /\ ctxs = <<>>
    /\ Len(memory) = 3
    /\ \A n \in 1..3 : memory[n].addr = 0
    /\ trace[memory[1].clk + 1].op = "mem_store" /\ InvocationAt(memory[1].clk) = 0
    /\ trace[memory[2].clk + 1].op = "mem_store" /\ InvocationAt(memory[2].clk) # 0
    /\ memory[2].val # memory[1].val
    /\ trace[memory[3].clk + 1].op = "mem_load" /\ InvocationAt(memory[3].clk) = 0
    /\ memory[3].val = memory[1].val
    /\ stack[1] = memory[1].val
    /\ memory[3].val # 0

(***************************************************************************)
(* A run of a process: cycles of the program, the decorator that copies a  *)
(* range of the memory into the advice map, and the operation that pops    *)
(* the advice tape.  The elements of the stack are integers of 64 bits.    *)
(* The first error ends the run.                                           *)
(***************************************************************************)
\* largest number of cycles of a run
MaxRunClk == 4

EMPTY_WORD == <<0, 0, 0, 0>>

\* Chiplets::get_mem_value: the word at an address, if it was ever accessed
get_mem_value(mem, ctx, addr) ==
    IF AccessesTo(mem, ctx, addr) = <<>>
    THEN [some |-> FALSE]
    ELSE [some |-> TRUE, word |-> <<MemValue(mem, ctx, addr), 0, 0, 0>>]

unwrap_or(option, default) == IF option.some THEN option.word ELSE default

\* Stack::get_word: the four elements from position idx, the deepest first;
\* as a key of the advice map, each element by its low half
get_word(stk, idx) ==
    <<StackGet(stk, idx + 3).lo, StackGet(stk, idx + 2).lo,
      StackGet(stk, idx + 1).lo, StackGet(stk, idx).lo>>

\* the words of the memory from start_addr up to end_addr, one after another
RECURSIVE MemValues(_, _, _, _)
MemValues(mem, ctx, start_addr, end_addr) ==
    IF start_addr >= end_addr THEN <<>>
    ELSE MemValues(mem, ctx, start_addr, end_addr - 1)
            \o unwrap_or(get_mem_value(mem, ctx, end_addr - 1), EMPTY_WORD)

\* insert_mem_values_into_adv_map, had it taken a refused range for empty
insert_mem_values_into_adv_map_any_range(self, stk, mem, ctx) ==
    LET range == get_mem_addr_range(stk, 4, 5)
        mem_values == IF range.ok
                      THEN MemValues(mem, ctx, range.val[1], range.val[2])
                      ELSE <<>>
    IN insert_into_map(self, get_word(stk, 0), mem_values)

\* insert_mem_values_into_adv_map, had it taken the word at end_addr too
insert_mem_values_into_adv_map_inclusive(self, stk, mem, ctx) ==
    LET range == get_mem_addr_range(stk, 4, 5)
    IN IF ~range.ok THEN [adv |-> self, res |-> range]
       ELSE LET mem_values == MemValues(mem, ctx, range.val[1], range.val[2] + 1)
            IN insert_into_map(self, get_word(stk, 0), mem_values)

\* insert_mem_values_into_adv_map, had it inserted the key before it looked
\* at the range
insert_mem_values_into_adv_map_key_first(self, stk, mem, ctx) ==
    LET range == get_mem_addr_range(stk, 4, 5)
        inserted == insert_into_map(self, get_word(stk, 0), <<>>)
    IN IF ~range.ok THEN [adv |-> inserted.adv, res |-> range]
       ELSE LET mem_values == MemValues(mem, ctx, range.val[1], range.val[2])
            IN insert_into_map(self, get_word(stk, 0), mem_values)

\* the provider after the decorator, and what the decorator returned
insert_mem_values_into_adv_map(self, stk, mem, ctx) ==
    LET range == get_mem_addr_range(stk, 4, 5)
    IN IF ~range.ok THEN [adv |-> self, res |-> range]
       ELSE LET mem_values == MemValues(mem, ctx, range.val[1], range.val[2])
            IN insert_into_map(self, get_word(stk, 0), mem_values)

\* what an operation returned reaches the driver: the provider is as the
\* operation left it, and an error ends the run
Returned(r) ==
    /\ step' = r.adv.step
    /\ tape' = r.adv.tape
    /\ values' = r.adv.values
    /\ sets' = r.adv.sets
    /\ status' = IF r.res.ok THEN status ELSE r.res

InsertMemValuesIntoAdvMap ==
    /\ status.ok
    /\ clk > 0
    /\ LET r == insert_mem_values_into_adv_map(Self, stack, memory, CurrentCtx)
       IN /\ Returned(r)
          /\ last' = [op |-> "insert_mem_values_into_adv_map", args |-> <<>>,
                      res |-> r.res, old |-> Self]
    /\ UNCHANGED <<clk, stack, active_depth, overflow, ctxs, trace, chipletVars, flowVars>>

\* adv_pop: the value read from the advice tape is pushed
AdvPop ==
    /\ status.ok
    /\ clk > 0
    /\ clk < MaxRunClk
    /\ LET r == read_tape(Self)
       IN /\ Returned(r)
          /\ last' = [op |-> "adv_pop", args |-> <<>>, res |-> r.res, old |-> Self]
          /\ IF r.res.ok
             THEN LET s == shift_right(StackState, clk, U64(0, r.res.val))
                  IN /\ trace' = Append(trace, TraceRow("push"))
                     /\ clk' = clk + 1
                     /\ stack' = s.stack
                     /\ active_depth' = s.active_depth
                     /\ overflow' = s.overflow
             ELSE UNCHANGED <<clk, stack, active_depth, overflow, trace>>
    /\ UNCHANGED <<ctxs, chipletVars, flowVars>>

RunNoop == clk < MaxRunClk /\ Noop
RunCall == clk < MaxRunClk /\ CallOp
RunEnd == clk < MaxRunClk /\ EndOp

\* the addresses of a run: two below 2^32, one above
RunAddrs == {U64(0, 0), U64(0, 1), U64(1, 0)}

InitRun ==
    /\ \E t \in {<<>>, <<1>>}, m \in {<<>>, OneKeyMap} :
          Provided([advice_tape |-> t, advice_map |-> m, advice_sets |-> OneSet])
    /\ \E start_addr \in RunAddrs, end_addr \in RunAddrs :
          stack = [i \in 1..MIN_STACK_DEPTH |->
                      IF i = 1 THEN U64(0, 1)
                      ELSE IF i = 5 THEN start_addr
                      ELSE IF i = 6 THEN end_addr ELSE U64(0, 0)]
    /\ clk = 0
    /\ active_depth = MIN_STACK_DEPTH
    /\ overflow = EmptyTable
    /\ ctxs = <<>>
    /\ trace = <<>>
    /\ status = Ok(<<>>)
    /\ ChipletsIdle
    /\ FlowIdle

NextRun == RunNoop \/ RunCall \/ RunEnd \/ AdvPop \/ InsertMemValuesIntoAdvMap

SpecRun == InitRun /\ [][NextRun]_vars

\* the error an operation returns in the current state, by its name
ErrorOf(name) ==
    CASE name = "InvalidStackDepthOnReturn" -> Err(InvalidStackDepthOnReturn(active_depth))
      [] name = "AdviceTapeReadFailed" -> read_tape(Self).res
      [] name = "DuplicateAdviceKey" -> Err(DuplicateAdviceKey(get_word(stack, 0)))
      [] OTHER -> get_mem_addr_range(stack, 4, 5)

\* C24: no step is taken once an operation has failed; the step that fails
\* appends no row, leaves the clock and the stack, and its error is the
\* state of the run; a refused range of the decorator fails the run.
C24_FailureIsTerminal ==
    [][/\ status.ok
       /\ ~status'.ok =>
             /\ trace' = trace
             /\ clk' = clk
             /\ stack' = stack
             /\ active_depth' = active_depth
             /\ ctxs' = ctxs
             /\ status' = ErrorOf(status'.val[1])
       /\ (last'.op = "insert_mem_values_into_adv_map" /\ last'.old = Self
              /\ ~get_mem_addr_range(stack, 4, 5).ok) =>
             status' = get_mem_addr_range(stack, 4, 5)
       /\ (last'.op \in {"insert_mem_values_into_adv_map", "adv_pop"}
              /\ last'.old = Self /\ ~last'.res.ok) =>
             status' = last'.res
      ]_vars

\* a run that the range check of the decorator has ended
C24_Witness ==
    /\ ~status.ok
    /\ last.op = "insert_mem_values_into_adv_map"
    /\ status = last.res
    /\ status.val[1] = "InvalidMemoryRange"
    /\ Len(trace) > 1

(***************************************************************************)
(* Structured control flow: a program is a sequence of instructions,       *)
(* conditionals and loops; the process executes the first of what remains. *)
(* An instruction that is none of these appends its name to a log.         *)
(***************************************************************************)
\* largest number of conditions on the initial stack
MaxConds == 3
\* largest count of a repeat
MaxRepeat == 2

NotBinaryValue(v) == <<"NotBinaryValue", v>>

Node(kind, name, then_blk, else_blk, body) ==
    [kind |-> kind, name |-> name, then_blk |-> then_blk, else_blk |-> else_blk,
     body |-> body]

Inst(name) == Node("inst", name, <<>>, <<>>, <<>>)
If(then_blk, else_blk) == Node("if", "if.true", then_blk, else_blk, <<>>)
While(body) == Node("while", "while.true", <<>>, <<>>, body)

\* repeat.count: the assembler writes the body count times
RECURSIVE Repeat(_, _)
Repeat(count, body) == IF count = 0 THEN <<>> ELSE body \o Repeat(count - 1, body)

\* what remains to execute after if.true has taken the condition, had it
\* taken the branches the other way round
exec_if_inverted(node, cond, rest) ==
    IF cond = 0 THEN node.then_blk \o rest ELSE node.else_blk \o rest

\* what remains to execute after if.true has taken the condition
exec_if(node, cond, rest) ==
    IF cond = 1 THEN node.then_blk \o rest ELSE node.else_blk \o rest

\* what remains to execute after while.true has taken the condition, had it
\* not come back to the loop after the body
exec_while_once(node, cond, rest) ==
    IF cond = 1 THEN node.body \o rest ELSE rest

\* what remains to execute after while.true has taken the condition: the
\* body and the loop again, or what follows the loop
exec_while(node, cond, rest) ==
    IF cond = 1 THEN node.body \o <<node>> \o rest ELSE rest

\* a cycle of a structured program
FlowCycle(op, s, newflow) ==
    /\ trace' = Append(trace, TraceRow(op))
    /\ clk' = clk + 1
    /\ stack' = s.stack
    /\ active_depth' = s.active_depth
    /\ overflow' = s.overflow
    /\ flow' = newflow
    /\ UNCHANGED <<status, ctxs, adviceVars, chipletVars>>

\* the condition on top of the stack is not 0 or 1
FlowFails(cond) ==
    /\ status' = Err(NotBinaryValue(cond))
    /\ UNCHANGED <<clk, stack, active_depth, overflow, ctxs, trace, flow,
                   adviceVars, chipletVars>>

ExecInst ==
    /\ status.ok
    /\ flow.cont # <<>>
    /\ flow.cont[1].kind = "inst"
    /\ FlowCycle("noop", StackState,
                 [flow EXCEPT !.cont = Tail(flow.cont),
                              !.log = Append(flow.log, flow.cont[1].name)])

ExecIf ==
    /\ status.ok
    /\ flow.cont # <<>>
    /\ flow.cont[1].kind = "if"
    /\ IF stack[1] \in {0, 1}
       THEN FlowCycle("split", shift_left(StackState),
                      [flow EXCEPT !.cont = exec_if(flow.cont[1], stack[1], Tail(flow.cont))])
       ELSE FlowFails(stack[1])

ExecWhile ==
    /\ status.ok
    /\ flow.cont # <<>>
    /\ flow.cont[1].kind = "while"
    /\ IF stack[1] \in {0, 1}
       THEN FlowCycle("loop", shift_left(StackState),
                      [flow EXCEPT !.cont = exec_while(flow.cont[1], stack[1], Tail(flow.cont))])
       ELSE FlowFails(stack[1])

\* the programs: a conditional with and without else, a loop, a repeat, a
\* conditional in a loop and a loop in a conditional
IfElseProgram == <<If(<<Inst("then")>>, <<Inst("else")>>), Inst("after")>>
IfOnlyProgram == <<If(<<Inst("then")>>, <<>>), Inst("after")>>
WhileProgram == <<While(<<Inst("body")>>), Inst("after")>>
RepeatProgram(count) == Repeat(count, <<Inst("body")>>) \o <<Inst("after")>>
IfInLoopProgram ==
    <<While(<<If(<<Inst("then")>>, <<Inst("else")>>)>>), Inst("after")>>
LoopInIfProgram ==
    <<If(<<While(<<Inst("body")>>)>>, <<Inst("else")>>), Inst("after")>>

Programs ==
    {IfElseProgram, IfOnlyProgram, WhileProgram, IfInLoopProgram, LoopInIfProgram}
        \cup {RepeatProgram(count) : count \in 1..MaxRepeat}

\* the conditions a program finds on the stack, the first on top
CondInputs == UNION {[1..n -> {0, 1}] : n \in 0..MaxConds}

InitFlow ==
    /\ Provided([advice_tape |-> <<>>, advice_map |-> OneKeyMap, advice_sets |-> OneSet])
    /\ \E program \in Programs, inputs \in CondInputs :
          /\ flow = [cont |-> program, log |-> <<>>, program |-> program,
                     inputs |-> inputs]
          /\ stack = [i \in 1..MIN_STACK_DEPTH |->
                         IF i <= Len(inputs) THEN inputs[i] ELSE 0]
    /\ clk = 0
    /\ active_depth = MIN_STACK_DEPTH
    /\ overflow = EmptyTable
    /\ ctxs = <<>>
    /\ trace = <<>>
    /\ status = Ok(<<>>)
    /\ ChipletsIdle

NextFlow == ExecInst \/ ExecIf \/ ExecWhile

SpecFlow == InitFlow /\ [][NextFlow]_vars

\* the k-th condition the program finds: beyond the inputs the stack is zero
CondAt(k) == IF k <= Len(flow.inputs) THEN flow.inputs[k] ELSE 0

\* the stack after k conditions have been taken from it
StackAfter(k) == [i \in 1..MIN_STACK_DEPTH |-> CondAt(i + k)]

\* the number of conditions equal to 1 from the k-th on, before the first 0
RECURSIVE OnesFrom(_)
OnesFrom(k) == IF CondAt(k) = 1 THEN 1 + OnesFrom(k + 1) ELSE 0

Done == status.ok /\ flow.cont = <<>>

\* C25: if.true takes the condition from the stack; with 1 the then-block
\* is executed, with 0 the else-block, or nothing when there is none; never
\* both, and what follows the conditional is executed after it.
C25_OneBranch ==
    /\ (flow.program = IfElseProgram /\ Done) =>
          /\ flow.log = <<IF CondAt(1) = 1 THEN "then" ELSE "else", "after">>
          /\ stack = StackAfter(1)
    /\ (flow.program = IfOnlyProgram /\ Done) =>
          /\ flow.log = (IF CondAt(1) = 1 THEN <<"then">> ELSE <<>>) \o <<"after">>
          /\ stack = StackAfter(1)
    /\ (flow.program \in {IfElseProgram, IfOnlyProgram}) =>
          Len(SelectSeq(flow.log, LAMBDA name : name \in {"then", "else"})) <= 1

\* both programs of the test conditional_execution have ended, here the
\* one with else on the condition 0
C25_Witness ==
    /\ flow.program = IfElseProgram
    /\ Done
    /\ flow.inputs = <<0, 1>>
    /\ flow.log = <<"else", "after">>
    /\ stack[1] = 1

\* a log of count times the body, then what follows the loop
BodyTimes(count) == Repeat(count, <<"body">>) \o <<"after">>

\* C26: while.true takes a condition before each iteration: the body is
\* executed once for each 1 found and the loop is left at the first 0, at
\* once when the first condition is 0; repeat.n executes the body n times
\* and takes nothing from the stack.
C26_LoopWhileOne ==
    /\ (flow.program = WhileProgram /\ Done) =>
          /\ flow.log = BodyTimes(OnesFrom(1))
          /\ stack = StackAfter(OnesFrom(1) + 1)
    /\ \A count \in 1..MaxRepeat :
          (flow.program = RepeatProgram(count) /\ Done) =>
              /\ flow.log = BodyTimes(count)
              /\ stack = StackAfter(0)

\* a loop that executed its body twice and was left at the third condition
C26_Witness ==
    /\ flow.program = WhileProgram
    /\ Done
    /\ flow.inputs = <<1, 1, 0>>
    /\ flow.log = <<"body", "body", "after">>

(***************************************************************************)
(* Further properties of the advice provider and of the injector of memory *)
(* values.                                                                 *)
(***************************************************************************)
\* largest number of sets the provider holds in the update specification
MaxSets == 2

\* update_merkle_leaf on a stored tree of depth 2; a copy is made while the
\* provider holds fewer than MaxSets sets
PathUpdateMerkleLeaf ==
    \E b \in DOMAIN sets, index \in PathIndexes, leaf \in LeafWords, copy \in BOOLEAN :
        LET root == SetRoot(sets[b])
        IN /\ copy => Cardinality(DOMAIN sets) < MaxSets
           /\ Call("update_merkle_leaf",
                   [root |-> root, index |-> index, leaf |-> leaf, copy |-> copy],
                   update_merkle_leaf(Self, root, index, leaf, copy))

NextUpdate == PathUpdateMerkleLeaf

\* the provider of a program that declares one tree of depth 2, under leaf
\* updates
SpecUpdate == InitPath /\ [][NextUpdate]_vars

\* C31: a successful update_merkle_leaf returns what get_merkle_path with
\* the depth of the set returned for the index before the call; after it,
\* get_tree_node with the new root returns the new leaf at the index and at
\* every other index the leaf of the old set.
C31_UpdateReturnsPathAndStoresLeaf ==
    (last.op = "update_merkle_leaf" /\ last.res.ok) =>
        LET root == last.args.root
            index == last.args.index
            before == last.old.sets[into_bytes(root)]
            depth == U64(0, before.depth)
            new_root == SetRoot(UpdatedSet)
            path_before == get_merkle_path(last.old, root, depth, index).res
            node_after == get_tree_node(Self, new_root, depth, index).res
        IN /\ path_before.ok
           /\ last.res.val = path_before.val
           /\ Len(last.res.val) = before.depth
           /\ node_after.ok
           /\ node_after.val = last.args.leaf
           /\ \A other \in 0..(2 ^ before.depth - 1) \ {index} :
                LET old_leaf == get_tree_node(last.old, root, depth, other).res
                    new_leaf == get_tree_node(Self, new_root, depth, other).res
                IN old_leaf.ok /\ new_leaf.ok /\ new_leaf.val = old_leaf.val

\* the third leaf of a set of depth 2 was replaced in place by another word
C31_Witness ==
    /\ last.op = "update_merkle_leaf"
    /\ last.res.ok
    /\ ~last.args.copy
    /\ last.args.index = 2
    /\ last.old.sets[into_bytes(last.args.root)].depth = 2
    /\ last.old.sets[into_bytes(last.args.root)].leaves[3] # last.args.leaf
    /\ Len(last.res.val) = 2
    /\ get_tree_node(Self, SetRoot(UpdatedSet), U64(0, 2), 2).res = Ok(last.args.leaf)

\* C32: when update_merkle_leaf with update_in_copy = false fails because
\* the path of the index cannot be resolved, the sets of the provider are
\* those before the call and the set under the root is still stored.
C32_FailedUpdateKeepsSets ==
    (/\ last.op = "update_merkle_leaf"
     /\ ~last.args.copy
     /\ ~last.res.ok
     /\ last.res.val[1] = "AdviceSetLookupFailed") =>
        /\ sets = last.old.sets
        /\ into_bytes(last.args.root) \in DOMAIN sets
        /\ get_tree_node(Self, last.args.root, U64(0, 1), 0).res.ok

\* C33: when read_tape_double fails, the tape is the tape before the call,
\* also when it held between 4 and 7 elements.
C33_FailedDoubleReadKeepsTape ==
    (last.op = "read_tape_double" /\ ~last.res.ok) =>
        /\ Len(last.old.tape) < 8
        /\ tape = last.old.tape

TapeCalls == {"read_tape", "read_tapew", "read_tape_double", "write_tape"}

\* C34: the step counter is 0 at construction; advance_clock adds exactly
\* one to it and changes neither the tape nor the map nor the sets; the
\* reads and writes of the tape leave it as it is, and a read that fails
\* reports it in AdviceTapeReadFailed.
C34_ClockCountsCycles ==
    /\ last.op = "new" => step = 0
    /\ last.op = "advance_clock" =>
          /\ step = last.old.step + 1
          /\ tape = last.old.tape
          /\ values = last.old.values
          /\ sets = last.old.sets
    /\ last.op \in TapeCalls =>
          /\ step = last.old.step
          /\ ~last.res.ok => last.res.val = AdviceTapeReadFailed(step)

\* a read of a word failed on a tape of fewer than four elements after one
\* call of advance_clock
C34_Witness ==
    /\ last.op = "read_tapew"
    /\ ~last.res.ok
    /\ last.res.val = AdviceTapeReadFailed(1)
    /\ tape # <<>>
    /\ step = 1

(***************************************************************************)
(* The injector of memory values on a memory that programs write: the      *)
(* stack holds a value to store, the key, start_addr and end_addr.         *)
(***************************************************************************)
\* mem_store.addr in a run: the low half of the top of the stack is written
RunStore ==
    /\ clk > 0
    /\ clk < MaxRunClk
    /\ \E addr \in MemAddrs :
          CycleWith("mem_store", shift_left(StackState), ctxs,
                    mem_write(memory, CurrentCtx, addr, clk, stack[1].lo))

\* the ends of the ranges: up to one past the addresses written
EndAddrs == {U64(0, 0), U64(0, 1), U64(0, 2)}

InitInject ==
    /\ \E m \in {<<>>, OneKeyMap} :
          Provided([advice_tape |-> <<>>, advice_map |-> m, advice_sets |-> OneSet])
    /\ \E start_addr \in RunAddrs, end_addr \in EndAddrs :
          stack = [i \in 1..MIN_STACK_DEPTH |->
                      IF i = 1 THEN U64(0, 7)
                      ELSE IF i = 2 THEN U64(0, 1)
                      ELSE IF i = 6 THEN start_addr
                      ELSE IF i = 7 THEN end_addr ELSE U64(0, 0)]
    /\ clk = 0
    /\ active_depth = MIN_STACK_DEPTH
    /\ overflow = EmptyTable
    /\ ctxs = <<>>
    /\ trace = <<>>
    /\ status = Ok(<<>>)
    /\ ChipletsIdle
    /\ FlowIdle

NextInject == RunNoop \/ RunStore \/ RunCall \/ RunEnd \/ InsertMemValuesIntoAdvMap

SpecInject == InitInject /\ [][NextInject]_vars

\* the word of the memory at an address of a context: of the last access to
\* it, the zero word when there was none
WordAt(mem, ctx, addr) ==
    LET written == {n \in 1..Len(mem) : mem[n].ctx = ctx /\ mem[n].addr = addr}
    IN IF written = {} THEN <<0, 0, 0, 0>>
       ELSE <<mem[CHOOSE n \in written : \A m \in written : m <= n].val, 0, 0, 0>>

\* the key of the advice map that the top word of the stack names
KeyOnStack ==
    into_bytes(<<stack[4].lo, stack[3].lo, stack[2].lo, stack[1].lo>>)

\* a step of the decorator
Injects ==
    /\ last'.op = "insert_mem_values_into_adv_map"
    /\ last'.old = Self
    /\ status.ok

\* C35: a successful insert_mem_values_into_adv_map stores under the key on
\* top of the stack 4 * (end_addr - start_addr) elements: the words of the
\* current context at start_addr, ..., end_addr - 1 in this order, the zero
\* word for an address never written, nothing when the addresses are equal;
\* the stack, the memory and the other keys are as before.
C35_MemoryWordsInserted ==
    [][(Injects /\ last'.res.ok) =>
          LET start_addr == stack[5].lo
              end_addr == stack[6].lo
          IN /\ stack[5].hi = 0 /\ stack[6].hi = 0
             /\ start_addr <= end_addr
             /\ KeyOnStack \in DOMAIN values'
             /\ Len(values'[KeyOnStack]) = 4 * (end_addr - start_addr)
             /\ \A k \in 0..(end_addr - start_addr - 1) :
                   SubSeq(values'[KeyOnStack], 4 * k + 1, 4 * k + 4)
                      = WordAt(memory, CurrentCtx, start_addr + k)
             /\ start_addr = end_addr => values'[KeyOnStack] = <<>>
             /\ \A b \in DOMAIN values : b # KeyOnStack => values'[b] = values[b]
             /\ DOMAIN values' = DOMAIN values \cup {KeyOnStack}
             /\ stack' = stack
             /\ active_depth' = active_depth
             /\ memory' = memory
             /\ tape' = tape
             /\ status'.ok
      ]_vars

\* the word written at address 0 and the zero word of address 1, never
\* written, are in the map
C35_Witness ==
    /\ last.op = "insert_mem_values_into_adv_map"
    /\ last.res.ok
    /\ \E b \in DOMAIN values : values[b] = <<7, 0, 0, 0, 0, 0, 0, 0>>
    /\ \E n \in 1..Len(memory) : memory[n].addr = 0 /\ memory[n].val = 7

\* C36: when the range check of insert_mem_values_into_adv_map fails, on an
\* address of 2^32 or more or on start_addr > end_addr, the advice map, the
\* memory and the stack are as before the call and the error of the check
\* is returned; a key is inserted only in a step whose range is valid.
C36_RefusedRangeChangesNothing ==
    [][/\ (Injects /\ ~get_mem_addr_range(stack, 4, 5).ok) =>
             /\ values' = values
             /\ memory' = memory
             /\ stack' = stack
             /\ tape' = tape
             /\ sets' = sets
             /\ last'.res = get_mem_addr_range(stack, 4, 5)
       /\ (Injects /\ values' # values) =>
             /\ stack[5].hi = 0 /\ stack[6].hi = 0
             /\ stack[5].lo <= stack[6].lo
      ]_vars

\* the decorator failed on a range that ends before it starts, after a
\* store, with a key that the map does not hold
C36_Witness ==
    /\ last.op = "insert_mem_values_into_adv_map"
    /\ ~last.res.ok
    /\ last.res.val[1] = "InvalidMemoryRange"
    /\ memory # <<>>
    /\ KeyOnStack \notin DOMAIN values

\* whether the helper failed with this error about this address
OutOfBounds(res, addr) ==
    /\ ~res.ok
    /\ res.val[1] = "MemoryAddressOutOfBounds"
    /\ res.val[2] = addr

\* C37: in get_mem_addr_range the bounds come before the order and
\* start_addr before end_addr: with start_addr of 2^32 or more the error is
\* MemoryAddressOutOfBounds(start_addr) whatever end_addr is; otherwise with
\* end_addr of 2^32 or more it is MemoryAddressOutOfBounds(end_addr);
\* InvalidMemoryRange is returned only when both are below 2^32.
C37_BoundsBeforeOrder ==
    last.op = "get_mem_addr_range" =>
        LET start_addr == stack[5]
            end_addr == stack[6]
        IN /\ start_addr.hi > 0 => OutOfBounds(last.res, start_addr)
           /\ (start_addr.hi = 0 /\ end_addr.hi > 0) => OutOfBounds(last.res, end_addr)
           /\ (~last.res.ok /\ last.res.val[1] = "InvalidMemoryRange") =>
                 /\ start_addr.hi = 0
                 /\ end_addr.hi = 0
                 /\ start_addr.lo > end_addr.lo

\* both addresses are 2^32 or more, start_addr the larger, and the error
\* names start_addr
C37_Witness ==
    /\ last.op = "get_mem_addr_range"
    /\ stack[5].hi > 0
    /\ stack[6].hi > 0
    /\ stack[5].lo > stack[6].lo
    /\ OutOfBounds(last.res, stack[5])

(***************************************************************************)
(* The calls that only read the map and the sets: the provider of a        *)
(* program that declares one key with any list, under copies from the map  *)
(* to the tape, node and path queries and clock ticks.                     *)
(***************************************************************************)
InitFrame ==
    \E vals \in SeqsUpTo(Felts, MaxVals) :
        Constructed([advice_tape |-> <<>>,
                     advice_map |-> [b \in {into_bytes(<<1, 0, 0, 0>>)} |-> vals],
                     advice_sets |-> OneSet])

NextFrame ==
    \/ WriteTapeFromMap(2 * MaxVals)
    \/ GetTreeNode
    \/ GetMerklePath
    \/ AdvanceClock

SpecFrame == InitFrame /\ [][NextFrame]_vars

\* C38: a successful write_tape_from_map leaves the map as it was, so that
\* a second call with the same key succeeds and pushes the same elements
\* again; get_tree_node and get_merkle_path leave the tape, the map, the
\* sets and the step counter, whether they succeed or fail.
C38_ReadsLeaveTheProvider ==
    /\ (last.op = "write_tape_from_map" /\ last.res.ok) =>
          LET pushed == SubSeq(tape, Len(last.old.tape) + 1, Len(tape))
              again == write_tape_from_map(Self, last.args[1])
          IN /\ values = last.old.values
             /\ sets = last.old.sets
             /\ step = last.old.step
             /\ again.res.ok
             /\ again.adv.tape = tape \o pushed
             /\ again.adv.values = values
    /\ last.op \in {"get_tree_node", "get_merkle_path"} =>
          /\ tape = last.old.tape
          /\ values = last.old.values
          /\ sets = last.old.sets
          /\ step = last.old.step

\* the list of a key was pushed twice, one call after the other
C38_Witness ==
    /\ last.op = "write_tape_from_map"
    /\ last.res.ok
    /\ last.old.tape # <<>>
    /\ tape = last.old.tape \o last.old.tape
    /\ tape[1] # tape[2]

(***************************************************************************)
(* The traversal of the syntax tree (assembly/src/ast/visit.rs).  The      *)
(* visitor of the model overrides visit_import, visit_export, visit_op and *)
(* the visit_immediate methods: each records the name of what it is given  *)
(* and breaks with that name when it is the name the visitor stops at;     *)
(* visit_export and visit_op otherwise go on with the default traversal.   *)
(* A result is the visitor after the call and the ControlFlow returned.    *)
(***************************************************************************)
Continue == [brk |-> FALSE, val |-> "none"]
Break(v) == [brk |-> TRUE, val |-> v]

Returns(visitor, cf) == [visitor |-> visitor, cf |-> cf]

\* what the methods the visitor overrides do with the item they are given
Recorded(visitor, name) ==
    Returns([visitor EXCEPT !.visited = Append(@, name)],
            IF name = visitor.stop THEN Break(name) ELSE Continue)

\* the nodes of the tree besides those of the control flow
AstNode(kind, name, then_blk, else_blk, body, imms) ==
    [kind |-> kind, name |-> name, then_blk |-> then_blk, else_blk |-> else_blk,
     body |-> body, imms |-> imms]
OpInst(name) == AstNode("inst", name, <<>>, <<>>, <<>>, <<>>)
OpDebug(name, imms) == AstNode("debug", name, <<>>, <<>>, <<>>, imms)
OpIf(name, then_blk, else_blk) == AstNode("if", name, then_blk, else_blk, <<>>, <<>>)
OpWhile(name, body) == AstNode("while", name, <<>>, <<>>, body, <<>>)
OpRepeat(name, body) == AstNode("repeat", name, <<>>, <<>>, body, <<>>)
ExportProcedure(name, body) == [kind |-> "procedure", name |-> name, body |-> body]
ExportAlias(name) == [kind |-> "alias", name |-> name, body |-> <<>>]

visit_immediate(visitor, imm) == Recorded(visitor, imm)

\* visit_debug_options: the immediates of the options, the first first
visit_debug_options(visitor, options) ==
    IF Len(options) = 0 THEN Returns(visitor, Continue)
    ELSE IF Len(options) = 1 THEN visit_immediate(visitor, options[1])
    ELSE LET first == visit_immediate(visitor, options[1])
         IN IF first.cf.brk THEN first
            ELSE visit_immediate(first.visitor, options[2])

visit_inst(visitor, inst) ==
    IF inst.kind = "debug" THEN visit_debug_options(visitor, inst.imms)
    ELSE Returns(visitor, Continue)

RECURSIVE visit_block(_, _)
RECURSIVE visit_op(_, _)
RECURSIVE visitor_visit_op(_, _)

\* visit_block, had it gone on after a Break
visit_block_no_stop(visitor, block) ==
    IF block = <<>> THEN Returns(visitor, Continue)
    ELSE LET first == visitor_visit_op(visitor, block[1])
             others == visit_block(first.visitor, Tail(block))
         IN IF first.cf.brk THEN Returns(others.visitor, first.cf) ELSE others

visit_block(visitor, block) ==
    IF block = <<>> THEN Returns(visitor, Continue)
    ELSE LET first == visitor_visit_op(visitor, block[1])
         IN IF first.cf.brk THEN first
            ELSE visit_block(first.visitor, Tail(block))

visit_op(visitor, op) ==
    IF op.kind = "if"
    THEN LET then_visited == visit_block(visitor, op.then_blk)
         IN IF then_visited.cf.brk THEN then_visited
            ELSE visit_block(then_visited.visitor, op.else_blk)
    ELSE IF op.kind \in {"while", "repeat"}
    THEN visit_block(visitor, op.body)
    ELSE visit_inst(visitor, op)

\* Visit::visit_op of the visitor: the op is recorded, then traversed
visitor_visit_op(visitor, op) ==
    LET recorded == Recorded(visitor, op.name)
    IN IF recorded.cf.brk THEN recorded ELSE visit_op(recorded.visitor, op)

visit_import(visitor, import) == Recorded(visitor, import)

visit_procedure(visitor, procedure) == visit_block(visitor, procedure.body)

visit_export(visitor, export) ==
    IF export.kind = "procedure" THEN visit_procedure(visitor, export)
    ELSE Returns(visitor, Continue)

\* Visit::visit_export of the visitor
visitor_visit_export(visitor, export) ==
    LET recorded == Recorded(visitor, export.name)
    IN IF recorded.cf.brk THEN recorded ELSE visit_export(recorded.visitor, export)

\* the two loops of visit_module
RECURSIVE visit_imports(_, _)
visit_imports(visitor, imports) ==
    IF imports = <<>> THEN Returns(visitor, Continue)
    ELSE LET first == visit_import(visitor, imports[1])
         IN IF first.cf.brk THEN first
            ELSE visit_imports(first.visitor, Tail(imports))

RECURSIVE visit_exports(_, _)
visit_exports(visitor, exports) ==
    IF exports = <<>> THEN Returns(visitor, Continue)
    ELSE LET first == visitor_visit_export(visitor, exports[1])
         IN IF first.cf.brk THEN first
            ELSE visit_exports(first.visitor, Tail(exports))

visit_module(visitor, module) ==
    LET imported == visit_imports(visitor, module.imports)
    IN IF imported.cf.brk THEN imported
       ELSE visit_exports(imported.visitor, module.procedures)

\* visit_mut_module and the functions it calls are those of visit_module
\* with mutable references
visit_mut_module(visitor, module) == visit_module(visitor, module)

\* the bodies of procedures: every kind of op, with distinct names
Bodies ==
    {<<>>,
     <<OpInst("a"), OpIf("if1", <<OpInst("b")>>, <<OpInst("c")>>), OpInst("d")>>,
     <<OpWhile("w1", <<OpInst("b"), OpDebug("dbg", <<"i1", "i2">>)>>), OpInst("d")>>,
     <<OpRepeat("r1", <<OpIf("if1", <<OpInst("b")>>, <<>>)>>), OpDebug("dbg", <<"i1">>)>>}

Modules ==
    {[imports |-> imports, procedures |-> procedures] :
        imports \in {<<>>, <<"m1">>, <<"m1", "m2">>},
        procedures \in
            UNION {{<<ExportProcedure("p1", body)>>,
                    <<ExportProcedure("p1", body), ExportAlias("q")>>,
                    <<ExportAlias("q"), ExportProcedure("p1", body)>>,
                    <<ExportProcedure("p1", body),
                      ExportProcedure("p2", <<OpInst("e"), OpInst("f")>>)>>} :
                   body \in Bodies}}

\* the names a visitor stops at: of every kind of item, and of none
StopNames ==
    {"none", "m1", "m2", "p1", "p2", "q", "a", "b", "c", "d", "e", "f",
     "if1", "w1", "r1", "dbg", "i1", "i2"}

InitVisit ==
    /\ Provided([advice_tape |-> <<>>, advice_map |-> OneKeyMap, advice_sets |-> OneSet])
    /\ StackIdle
    /\ ChipletsIdle
    /\ \E module \in Modules, stop \in StopNames :
          flow = [module |-> module, stop |-> stop, call |-> "none",
                  visited |-> <<>>, cf |-> Continue]

\* a traversal of the module by a new visitor
Traversal(call, r) ==
    /\ flow.call = "none"
    /\ flow' = [flow EXCEPT !.call = call, !.visited = r.visitor.visited, !.cf = r.cf]
    /\ UNCHANGED <<adviceVars, stackVars, chipletVars>>

VisitModule ==
    Traversal("visit_module",
              visit_module([stop |-> flow.stop, visited |-> <<>>], flow.module))

VisitMutModule ==
    Traversal("visit_mut_module",
              visit_mut_module([stop |-> flow.stop, visited |-> <<>>], flow.module))

NextVisit == VisitModule \/ VisitMutModule

SpecVisit == InitVisit /\ [][NextVisit]_vars

\* the items of a block in the order of the source: an op, then its then-
\* block, its else-block, its body and its immediates
RECURSIVE OpsInOrder(_)
OpsInOrder(block) ==
    IF block = <<>> THEN <<>>
    ELSE <<block[1].name>> \o OpsInOrder(block[1].then_blk)
            \o OpsInOrder(block[1].else_blk) \o OpsInOrder(block[1].body)
            \o block[1].imms \o OpsInOrder(Tail(block))

RECURSIVE ExportsInOrder(_)
ExportsInOrder(exports) ==
    IF exports = <<>> THEN <<>>
    ELSE <<exports[1].name>> \o OpsInOrder(exports[1].body)
            \o ExportsInOrder(Tail(exports))

SourceOrder(module) == module.imports \o ExportsInOrder(module.procedures)

\* the position of a name in a sequence, 0 when it is not in it
Position(seq, name) ==
    IF \E n \in 1..Len(seq) : seq[n] = name
    THEN CHOOSE n \in 1..Len(seq) : seq[n] = name /\ \A m \in 1..(n - 1) : seq[m] # name
    ELSE 0

\* C39: a traversal that no visit breaks visits every import, export, op
\* and immediate once, in the order of the source, the then-block before
\* the else-block, and returns Continue; when a visit returns Break(v) the
\* items before it and it are the only ones visited, and Break(v) is what
\* the traversal returns.
C39_TraversalStopsAtBreak ==
    flow.call # "none" =>
        LET order == SourceOrder(flow.module)
            at == Position(order, flow.stop)
        IN IF at = 0
           THEN flow.visited = order /\ flow.cf = Continue
           ELSE flow.visited = SubSeq(order, 1, at) /\ flow.cf = Break(flow.stop)

\* a visit broke in the then-block of a conditional: the else-block and the
\* ops after the conditional were not visited
C39_Witness ==
    /\ flow.call = "visit_module"
    /\ flow.stop = "b"
    /\ flow.cf = Break("b")
    /\ flow.visited = <<"m1", "p1", "a", "if1", "b">>
    /\ Len(SourceOrder(flow.module)) > 5

====
